---------------------------- MODULE Spec2Model ----------------------------
(***************************************************************************)
(* The request / cache / invalidation behaviour of ClickUpClient           *)
(* (src/scripts/clickup-client.ts).                                        *)
(*                                                                         *)
(* Strings are TLA+ strings; a JavaScript value is a tagged record         *)
(* [t |-> "str" | "num" | "bool" | "arr" | "undef", v |-> ...].  An        *)
(* options object is a sequence of <<name, value>> pairs in insertion      *)
(* order.  The data held by the remote service is one of the contents      *)
(* 0..MaxVer, and the payload of a 2xx response is the content at the time *)
(* of the request.                                                         *)
(* Time is counted in units of five minutes.                               *)
(***************************************************************************)
EXTENDS Integers, Sequences, FiniteSets, TLC

VARIABLES
    cache,          \* PluginCache entries: key -> [value, expiry]
    cacheEnabled,   \* PluginCache's own enabled flag (cache.enable / cache.disable)
    cacheDisabled,  \* ClickUpClient.cacheDisabled
    now,            \* the clock
    remote,         \* the content currently held by the remote service
    disableCalled,  \* history: disableCache() was called and enableCache() not since
    last,           \* the operation that has just completed and what it did,
                    \* until the caller takes its outcome
    history,        \* the outcomes of the calls a scripted caller has made so far
    pending         \* the calls of a concurrent caller whose requests are in flight

vars == <<cache, cacheEnabled, cacheDisabled, now, remote, disableCalled, last, history,
          pending>>

---------------------------------------------------------------------------
(* Bounds of the model *)

MaxTime == 1

MaxVer == 1

MaxEntries == 2

(* TTL.FIVE_MINUTES, TTL.FIFTEEN_MINUTES and TTL.HOUR in units of 5 minutes *)
TTL_FIVE_MINUTES == 1

TTL_FIFTEEN_MINUTES == 3

TTL_HOUR == 12

---------------------------------------------------------------------------
(* JavaScript values *)

Undef == [t |-> "undef", v |-> ""]

Str(s) == [t |-> "str", v |-> s]

Num(n) == [t |-> "num", v |-> n]

Bool(b) == [t |-> "bool", v |-> b]

Arr(a) == [t |-> "arr", v |-> a]

IsUndef(x) == x.t = "undef"

Digits == "0123456789"

RECURSIVE NumToStr(_)
NumToStr(n) ==
    IF n < 10 THEN SubSeq(Digits, n + 1, n + 1)
    ELSE NumToStr(n \div 10) \o SubSeq(Digits, (n % 10) + 1, (n % 10) + 1)

RECURSIVE Join(_, _)
(* Array.prototype.join(sep) on an array of strings *)
Join(a, sep) ==
    IF Len(a) = 0 THEN ""
    ELSE IF Len(a) = 1 THEN a[1]
    ELSE a[1] \o sep \o Join(Tail(a), sep)

(* String(value) / template-literal conversion *)
JsString(x) ==
    CASE x.t = "str" -> x.v
      [] x.t = "num" -> NumToStr(x.v)
      [] x.t = "bool" -> (IF x.v THEN "true" ELSE "false")
      [] x.t = "arr" -> Join(x.v, ",")
      [] OTHER -> "undefined"

(* JavaScript truthiness, as tested by  if (value)  *)
Truthy(x) ==
    CASE x.t = "str" -> x.v # ""
      [] x.t = "num" -> x.v # 0
      [] x.t = "bool" -> x.v
      [] x.t = "arr" -> TRUE
      [] OTHER -> FALSE

(* options?.name : the value of a field, undefined when options or the field is absent *)
Field(options, name) ==
    IF \E i \in 1..Len(options) : options[i][1] = name
    THEN options[CHOOSE i \in 1..Len(options) :
                    /\ options[i][1] = name
                    /\ \A j \in (i+1)..Len(options) : options[j][1] # name][2]
    ELSE Undef

(* options?.name?.join(",") *)
JoinedField(options, name) ==
    LET x == Field(options, name)
    IN IF x.t = "arr" THEN Str(Join(x.v, ",")) ELSE Undef

RECURSIVE Explicit(_, _)
Explicit(f, S) ==
    IF S = {} THEN <<>>
    ELSE LET a == CHOOSE x \in S : TRUE
         IN (a :> f[a]) @@ Explicit(f, S \ {a})

(* f as an explicit table, so that each f[a] is computed once *)
Memo(f) == Explicit(f, DOMAIN f)

---------------------------------------------------------------------------
(* Strings: order, search, and the regular expressions the client builds *)

Ascii == "%&+,-./0123456789:=?ABCDEFGHIJKLMNOPQRSTUVWXYZ[]^_abcdefghijklmnopqrstuvwxyz"

CharAt(s, i) == SubSeq(s, i, i)

CharCode(c) == CHOOSE i \in 1..Len(Ascii) : CharAt(Ascii, i) = c

RECURSIVE StrLess(_, _)
(* a < b in code-unit order, the order of Array.prototype.sort() on strings *)
StrLess(a, b) ==
    IF Len(b) = 0 THEN FALSE
    ELSE IF Len(a) = 0 THEN TRUE
    ELSE IF Head(a) = Head(b) THEN StrLess(Tail(a), Tail(b))
    ELSE CharCode(Head(a)) < CharCode(Head(b))

RECURSIVE MatchHere(_, _)
(* Whether regular expression re matches at the start of s.  The subset   *)
(* of the syntax the client's patterns use: literal characters, "." and    *)
(* the postfix "*".                                                        *)
MatchHere(re, s) ==
    IF Len(re) = 0 THEN TRUE
    ELSE IF Len(re) >= 2 /\ CharAt(re, 2) = "*"
    THEN \E k \in 0..Len(s) :
            /\ \A i \in 1..k : CharAt(re, 1) = "." \/ CharAt(s, i) = CharAt(re, 1)
            /\ MatchHere(SubSeq(re, 3, Len(re)), SubSeq(s, k + 1, Len(s)))
    ELSE /\ Len(s) > 0
         /\ (CharAt(re, 1) = "." \/ CharAt(re, 1) = CharAt(s, 1))
         /\ MatchHere(Tail(re), Tail(s))

(* RegExp.prototype.test : re.test(s) *)
RegExpTest(re, s) ==
    IF Len(re) > 0 /\ CharAt(re, 1) = "^"
    THEN MatchHere(Tail(re), s)
    ELSE \E k \in 0..Len(s) : MatchHere(re, SubSeq(s, k + 1, Len(s)))

---------------------------------------------------------------------------
(* @local/plugin-cache: createCacheKey and the PluginCache contract *)

ObjectKeys(params) == { params[i][1] : i \in 1..Len(params) }

RECURSIVE SortStrings(_)
(* Array.prototype.sort() of a set of distinct strings *)
SortStrings(S) ==
    IF S = {} THEN <<>>
    ELSE LET m == CHOOSE x \in S : \A y \in S \ {x} : StrLess(x, y)
         IN <<m>> \o SortStrings(S \ {m})

RECURSIVE JoinPairs(_, _)
JoinPairs(names, params) ==
    IF Len(names) = 0 THEN ""
    ELSE LET kv == names[1] \o "=" \o JsString(Field(params, names[1]))
         IN IF Len(names) = 1 THEN kv
            ELSE kv \o "&" \o JoinPairs(Tail(names), params)

(* a variant of createCacheKey that keeps the parameters in the order in    *)
(* which the object lists them                                             *)
createCacheKeyUnsorted(prefix, params) ==
    LET defined == SelectSeq(params, LAMBDA p : ~IsUndef(p[2]))
    IN IF Len(defined) = 0 THEN prefix
       ELSE prefix \o ":" \o JoinPairs([i \in 1..Len(defined) |-> defined[i][1]], params)

(* createCacheKey(prefix, params): the prefix, then the parameters whose   *)
(* value is not undefined as name=value in sorted order of their names     *)
createCacheKey(prefix, params) ==
    LET defined == { k \in ObjectKeys(params) : ~IsUndef(Field(params, k)) }
    IN IF defined = {} THEN prefix
       ELSE prefix \o ":" \o JoinPairs(SortStrings(defined), params)

NoEntries == [k \in {} |-> [value |-> 0, expiry |-> 0]]

(* an entry under key that has not expired at time t *)
CacheFresh(c, key, t) == key \in DOMAIN c /\ t < c[key].expiry

CachePut(c, key, value, ttl, t) ==
    [k \in DOMAIN c \cup {key} |->
        IF k = key THEN [value |-> value, expiry |-> t + ttl] ELSE c[k]]

(* cache.invalidate(key) *)
CacheInvalidate(c, key) == [k \in DOMAIN c \ {key} |-> c[k]]

(* a variant of CacheInvalidatePattern that looks for the pattern anywhere  *)
(* in the key                                                              *)
CacheInvalidatePatternUnanchored(c, re) ==
    [k \in { x \in DOMAIN c :
                ~RegExpTest(IF Len(re) > 0 /\ CharAt(re, 1) = "^" THEN Tail(re) ELSE re, x) }
        |-> c[k]]

(* cache.invalidatePattern(regex): drops every entry whose key the pattern matches *)
CacheInvalidatePattern(c, re) ==
    [k \in { x \in DOMAIN c : ~RegExpTest(re, x) } |-> c[k]]

---------------------------------------------------------------------------
(* The HTTP layer: ClickUpClient.request *)

baseUrl == "https://api.clickup.com/api/v2"

teamId == "9"

(* What a fetch can meet: an HTTP status, or 0 for a fetch that rejects     *)
(* because no response arrived                                             *)
Statuses == {0, 200, 404, 429}

(* the raw body text of a non-2xx response *)
ResponseText(st) ==
    CASE st = 429 -> "Rate limit reached"
      [] st = 404 -> "Not found"
      [] OTHER -> ""

ResponseOk(st) == st >= 200 /\ st <= 299

(* JSON.stringify(body): fields whose value is undefined are left out *)
JsonBody(body) == SelectSeq(body, LAMBDA p : ~IsUndef(p[2]))

(* the content of the remote data after a write *)
Written(content) == (content + 1) % (MaxVer + 1)

(* The data a 2xx response carries: the remote service applies a write     *)
(* before it answers it.                                                   *)
RemoteData(method) == IF method = "GET" THEN remote ELSE Written(remote)

(* a variant of ErrorMessage that leaves the status and the body out *)
ErrorMessageBare(st, errorText) == "ClickUp API error"

(* `ClickUp API error (${response.status}): ${errorText}` *)
ErrorMessage(st, errorText) ==
    "ClickUp API error (" \o NumToStr(st) \o "): " \o errorText

(* the message of the error fetch rejects with *)
FetchFailed == "fetch failed"

(* One fetch(url, {method, headers, body}) and the response to it *)
Fetch(method, endpoint, body, st) ==
    [ method |-> method,
      url    |-> baseUrl \o endpoint,
      body   |-> IF Len(body) > 0 THEN <<JsonBody(body[1])>> ELSE <<>>,
      status |-> st,
      text   |-> IF ResponseOk(st) THEN "" ELSE ResponseText(st),
      data   |-> IF ResponseOk(st) THEN <<RemoteData(method)>> ELSE <<>> ]

(* a variant of request that sends a failed fetch a second time *)
requestRetrying(method, endpoint, body, st) ==
    [ reqs   |-> IF ResponseOk(st) THEN << Fetch(method, endpoint, body, st) >>
                 ELSE << Fetch(method, endpoint, body, st), Fetch(method, endpoint, body, st) >>,
      ok     |-> ResponseOk(st),
      value  |-> IF ResponseOk(st) THEN <<RemoteData(method)>> ELSE <<>>,
      error  |-> CASE ResponseOk(st) -> ""
                   [] st = 0 -> FetchFailed
                   [] OTHER -> ErrorMessage(st, ResponseText(st)) ]

(* One call of request(method, endpoint, body) that meets st: the fetches  *)
(* it makes in order, and what the call yields.  body is <<>> when the     *)
(* caller passes none and <<fields>> when it does.                         *)
request(method, endpoint, body, st) ==
    [ reqs   |-> << Fetch(method, endpoint, body, st) >>,
      ok     |-> ResponseOk(st),
      value  |-> IF ResponseOk(st) THEN <<RemoteData(method)>> ELSE <<>>,
      error  |-> CASE ResponseOk(st) -> ""
                   [] st = 0 -> FetchFailed
                   [] OTHER -> ErrorMessage(st, ResponseText(st)) ]

---------------------------------------------------------------------------
(* URLSearchParams *)

Unreserved == "*-._0123456789ABCDEFGHIJKLMNOPQRSTUVWXYZabcdefghijklmnopqrstuvwxyz"

InString(c, s) == \E i \in 1..Len(s) : CharAt(s, i) = c

PercentCode(c) ==
    CASE c = "[" -> "%5B"
      [] c = "]" -> "%5D"
      [] c = "," -> "%2C"
      [] c = ":" -> "%3A"
      [] c = "=" -> "%3D"
      [] c = "&" -> "%26"
      [] c = "+" -> "%2B"
      [] c = "%" -> "%25"
      [] c = "/" -> "%2F"
      [] c = "?" -> "%3F"
      [] c = "^" -> "%5E"
      [] OTHER -> "%3F"

RECURSIVE UrlEncode(_)
(* application/x-www-form-urlencoded serialisation of one name or value *)
UrlEncode(s) ==
    IF Len(s) = 0 THEN ""
    ELSE LET c == Head(s)
             e == IF InString(c, Unreserved) THEN c
                  ELSE IF c = " " THEN "+"
                  ELSE PercentCode(c)
         IN e \o UrlEncode(Tail(s))

(* params.set(name, value) *)
ParamsSet(params, name, value) ==
    IF \E i \in 1..Len(params) : params[i][1] = name
    THEN LET first == CHOOSE i \in 1..Len(params) :
                        /\ params[i][1] = name
                        /\ \A j \in 1..(i-1) : params[j][1] # name
             kept == { i \in 1..Len(params) : i = first \/ params[i][1] # name }
             Nth(k) == CHOOSE i \in kept : Cardinality({ j \in kept : j <= i }) = k
         IN [k \in 1..Cardinality(kept) |->
                IF Nth(k) = first THEN <<name, value>> ELSE params[Nth(k)]]
    ELSE Append(params, <<name, value>>)

(* if (cond) params.set(name, value) *)
SetIf(cond, params, name, value) ==
    IF cond THEN ParamsSet(params, name, value) ELSE params

RECURSIVE AppendEach(_, _, _)
(* array.forEach(x => params.append(name, x)) *)
AppendEach(params, name, array) ==
    IF Len(array) = 0 THEN params
    ELSE AppendEach(Append(params, <<name, array[1]>>), name, Tail(array))

(* if (options?.field) options.field.forEach(x => params.append(name, x)) *)
AppendIf(params, name, x) ==
    IF Truthy(x) THEN AppendEach(params, name, x.v) ELSE params

RECURSIVE ParamsToString(_)
(* params.toString() *)
ParamsToString(params) ==
    IF Len(params) = 0 THEN ""
    ELSE LET kv == UrlEncode(params[1][1]) \o "=" \o UrlEncode(params[1][2])
         IN IF Len(params) = 1 THEN kv
            ELSE kv \o "&" \o ParamsToString(Tail(params))

(* `${path}${queryString ? `?${queryString}` : ""}` *)
WithQuery(path, params) ==
    LET queryString == ParamsToString(params)
    IN IF queryString # "" THEN path \o "?" \o queryString ELSE path

---------------------------------------------------------------------------
(* The state machine *)

(* no call is in flight *)
NothingPending == [ read |-> <<>>, write |-> <<>>, old |-> {} ]

NoOperation ==
    [ op |-> "none", args |-> <<>>, key |-> "", fetchedAt |-> 0, hit |-> FALSE,
      reqs |-> <<>>, ok |-> TRUE, result |-> <<>>, error |-> "", dropped |-> {} ]

Init ==
    /\ cache = NoEntries
    /\ cacheEnabled = TRUE
    /\ cacheDisabled = FALSE
    /\ now = 0
    /\ remote = 0
    /\ disableCalled = FALSE
    /\ last = NoOperation
    /\ history = <<>>
    /\ pending = NothingPending

(* An operation completes: what it was called with, the requests it sent   *)
(* in order, its outcome (a result, or the message of the error thrown),   *)
(* when a read fetched the result it returns, and the cache keys removed   *)
Completed(op, args, key, hit, reqs, ok, result, error) ==
    last' = [ op |-> op, args |-> args, key |-> key,
              fetchedAt |-> IF ok /\ key # "" /\ reqs # <<>> THEN now ELSE 0,
              hit |-> hit,
              reqs |-> reqs, ok |-> ok, result |-> result, error |-> error,
              dropped |-> DOMAIN cache \ DOMAIN cache' ]

(* a variant of BypassCache with the flag inverted *)
BypassCacheInverted == ~cacheDisabled

(* the bypassCache option every read passes:  bypassCache: this.cacheDisabled *)
BypassCache == cacheDisabled

(* a variant of getOrFetch that stores an empty value when the producer    *)
(* fails                                                                   *)
getOrFetchCachingFailure(op, args, key, r, ttl) ==
    IF cacheEnabled /\ ~BypassCache /\ CacheFresh(cache, key, now)
    THEN /\ cache' = cache
         /\ Completed(op, args, key, TRUE, <<>>, TRUE, <<cache[key].value>>, "")
    ELSE /\ ~(key \notin DOMAIN cache /\ Cardinality(DOMAIN cache) >= MaxEntries)
         /\ cache' = CachePut(cache, key, IF r.ok THEN r.value[1] ELSE 0, ttl, now)
         /\ Completed(op, args, key, FALSE, r.reqs, r.ok, r.value, r.error)

(* cache.getOrFetch(key, producer, {ttl, bypassCache}), where r is what the *)
(* producer's request yields if the producer is invoked.  A disabled cache  *)
(* invokes the producer and may or may not store what it returns.           *)
getOrFetch(op, args, key, r, ttl) ==
    IF cacheEnabled /\ ~BypassCache /\ CacheFresh(cache, key, now)
    THEN /\ cache' = cache
         /\ Completed(op, args, key, TRUE, <<>>, TRUE, <<cache[key].value>>, "")
    ELSE IF ~r.ok
    THEN /\ cache' = cache
         /\ Completed(op, args, key, FALSE, r.reqs, FALSE, <<>>, r.error)
    ELSE /\ \E store \in (IF cacheEnabled THEN {TRUE} ELSE BOOLEAN) :
              IF store
              THEN /\ ~(key \notin DOMAIN cache /\ Cardinality(DOMAIN cache) >= MaxEntries)
                   /\ cache' = CachePut(cache, key, r.value[1], ttl, now)
              ELSE cache' = cache
         /\ Completed(op, args, key, FALSE, r.reqs, TRUE, r.value, "")

ReadFrame == UNCHANGED <<cacheEnabled, cacheDisabled, now, remote, disableCalled>>

SpaceIds == {"s1"}

FolderIds == {"f1"}

ListIds == {"L1"}

TaskIds == {"a", "ab"}

NoOptions == <<>>

---------------------------------------------------------------------------
(* Space, folder and list reads *)

getSpacesEndpoint == "/team/" \o teamId \o "/space"

(* a variant of getSpaces that calls request without going through the cache *)
getSpacesUncached ==
    \E st \in Statuses :
        LET r == request("GET", getSpacesEndpoint, <<>>, st)
        IN /\ cache' = cache
           /\ Completed("getSpaces", <<>>, "spaces", FALSE, r.reqs, r.ok, r.value, r.error)
           /\ ReadFrame

getSpaces ==
    \E st \in Statuses :
        /\ getOrFetch("getSpaces", <<>>, "spaces",
                      request("GET", getSpacesEndpoint, <<>>, st), TTL_HOUR)
        /\ ReadFrame

getSpaceKey(spaceId) == createCacheKey("space", << <<"id", Str(spaceId)>> >>)

getSpaceKeys ==
    Memo([ spaceId \in SpaceIds |-> getSpaceKey(spaceId) ])

getSpace ==
    \E spaceId \in SpaceIds, st \in Statuses :
        /\ getOrFetch("getSpace", <<spaceId>>, getSpaceKeys[spaceId],
                      request("GET", "/space/" \o spaceId, <<>>, st), TTL_HOUR)
        /\ ReadFrame

getFoldersKey(spaceId) == createCacheKey("folders", << <<"space", Str(spaceId)>> >>)

getFoldersKeys ==
    Memo([ spaceId \in SpaceIds |-> getFoldersKey(spaceId) ])

(* a variant of getFolders that caches for an hour *)
getFoldersCachedAnHour ==
    \E spaceId \in SpaceIds, st \in Statuses :
        /\ getOrFetch("getFolders", <<spaceId>>, getFoldersKeys[spaceId],
                      request("GET", "/space/" \o spaceId \o "/folder", <<>>, st),
                      TTL_HOUR)
        /\ ReadFrame

getFolders ==
    \E spaceId \in SpaceIds, st \in Statuses :
        /\ getOrFetch("getFolders", <<spaceId>>, getFoldersKeys[spaceId],
                      request("GET", "/space/" \o spaceId \o "/folder", <<>>, st),
                      TTL_FIFTEEN_MINUTES)
        /\ ReadFrame

getListsKey(folderId) == createCacheKey("lists", << <<"folder", Str(folderId)>> >>)

getListsKeys ==
    Memo([ folderId \in FolderIds |-> getListsKey(folderId) ])

getLists ==
    \E folderId \in FolderIds, st \in Statuses :
        /\ getOrFetch("getLists", <<folderId>>, getListsKeys[folderId],
                      request("GET", "/folder/" \o folderId \o "/list", <<>>, st),
                      TTL_FIFTEEN_MINUTES)
        /\ ReadFrame

getFolderlessListsKey(spaceId) ==
    createCacheKey("folderless_lists", << <<"space", Str(spaceId)>> >>)

getFolderlessListsKeys ==
    Memo([ spaceId \in SpaceIds |-> getFolderlessListsKey(spaceId) ])

getFolderlessLists ==
    \E spaceId \in SpaceIds, st \in Statuses :
        /\ getOrFetch("getFolderlessLists", <<spaceId>>, getFolderlessListsKeys[spaceId],
                      request("GET", "/space/" \o spaceId \o "/list", <<>>, st),
                      TTL_FIFTEEN_MINUTES)
        /\ ReadFrame

getListKey(listId) == createCacheKey("list", << <<"id", Str(listId)>> >>)

getListKeys ==
    Memo([ listId \in ListIds |-> getListKey(listId) ])

getList ==
    \E listId \in ListIds, st \in Statuses :
        /\ getOrFetch("getList", <<listId>>, getListKeys[listId],
                      request("GET", "/list/" \o listId, <<>>, st),
                      TTL_FIFTEEN_MINUTES)
        /\ ReadFrame

---------------------------------------------------------------------------
(* Task reads *)

getTasksCacheParams(listId, options) ==
    << <<"list", Str(listId)>>,
       <<"archived", Field(options, "archived")>>,
       <<"include_closed", Field(options, "include_closed")>>,
       <<"page", Field(options, "page")>>,
       <<"order_by", Field(options, "order_by")>>,
       <<"reverse", Field(options, "reverse")>>,
       <<"subtasks", Field(options, "subtasks")>>,
       <<"statuses", JoinedField(options, "statuses")>>,
       <<"assignees", JoinedField(options, "assignees")>>,
       <<"due_date_gt", Field(options, "due_date_gt")>>,
       <<"due_date_lt", Field(options, "due_date_lt")>>,
       <<"date_created_gt", Field(options, "date_created_gt")>>,
       <<"date_created_lt", Field(options, "date_created_lt")>>,
       <<"date_updated_gt", Field(options, "date_updated_gt")>>,
       <<"date_updated_lt", Field(options, "date_updated_lt")>> >>

getTasksKey(listId, options) == createCacheKey("tasks", getTasksCacheParams(listId, options))

getTasksParams(options) ==
    LET F(name) == Field(options, name)
        p1  == SetIf(~IsUndef(F("archived")), <<>>, "archived", JsString(F("archived")))
        p2  == SetIf(Truthy(F("include_closed")), p1, "include_closed", "true")
        p3  == SetIf(~IsUndef(F("page")), p2, "page", JsString(F("page")))
        p4  == SetIf(Truthy(F("order_by")), p3, "order_by", JsString(F("order_by")))
        p5  == SetIf(Truthy(F("reverse")), p4, "reverse", "true")
        p6  == SetIf(Truthy(F("subtasks")), p5, "subtasks", "true")
        p7  == AppendIf(p6, "statuses[]", F("statuses"))
        p8  == AppendIf(p7, "assignees[]", F("assignees"))
        p9  == SetIf(Truthy(F("due_date_gt")), p8, "due_date_gt", JsString(F("due_date_gt")))
        p10 == SetIf(Truthy(F("due_date_lt")), p9, "due_date_lt", JsString(F("due_date_lt")))
        p11 == SetIf(Truthy(F("date_created_gt")), p10, "date_created_gt",
                     JsString(F("date_created_gt")))
        p12 == SetIf(Truthy(F("date_created_lt")), p11, "date_created_lt",
                     JsString(F("date_created_lt")))
        p13 == SetIf(Truthy(F("date_updated_gt")), p12, "date_updated_gt",
                     JsString(F("date_updated_gt")))
        p14 == SetIf(Truthy(F("date_updated_lt")), p13, "date_updated_lt",
                     JsString(F("date_updated_lt")))
    IN p14

getTasksEndpoint(listId, options) ==
    WithQuery("/list/" \o listId \o "/task", getTasksParams(options))

TasksOptions ==
    { NoOptions,
      << <<"statuses", Arr(<<"open", "review">>)>>, <<"due_date_lt", Num(7)>>,
         <<"include_closed", Bool(FALSE)>>, <<"page", Num(0)>> >> }

(* the key and the endpoint of each call the model makes, computed once *)
getTasksCalls ==
    Memo([ c \in ListIds \X TasksOptions |->
             [ key |-> getTasksKey(c[1], c[2]), endpoint |-> getTasksEndpoint(c[1], c[2]) ] ])

(* getTasks(listId, options) for the calls <<listId, options>> of a table *)
getTasksOver(calls) ==
    \E c \in DOMAIN calls, st \in Statuses :
        /\ getOrFetch("getTasks", c, calls[c].key,
                      request("GET", calls[c].endpoint, <<>>, st),
                      TTL_FIVE_MINUTES)
        /\ ReadFrame

getTasks == getTasksOver(getTasksCalls)

getTaskKey(taskId, includeMarkdown) ==
    createCacheKey("task", << <<"id", Str(taskId)>>, <<"markdown", Bool(includeMarkdown)>> >>)

getTaskEndpoint(taskId, includeMarkdown) ==
    "/task/" \o taskId \o (IF includeMarkdown THEN "?include_markdown_description=true" ELSE "")

getTaskCalls ==
    Memo([ c \in TaskIds \X BOOLEAN |->
             [ key |-> getTaskKey(c[1], c[2]), endpoint |-> getTaskEndpoint(c[1], c[2]) ] ])

getTask ==
    \E taskId \in TaskIds, includeMarkdown \in BOOLEAN, st \in Statuses :
        /\ getOrFetch("getTask", <<taskId, includeMarkdown>>,
                      getTaskCalls[<<taskId, includeMarkdown>>].key,
                      request("GET", getTaskCalls[<<taskId, includeMarkdown>>].endpoint,
                              <<>>, st),
                      TTL_FIVE_MINUTES)
        /\ ReadFrame

searchTasksCacheParams(query, options) ==
    << <<"query", Str(query)>>,
       <<"include_closed", Field(options, "include_closed")>>,
       <<"assigned_to_me", Field(options, "assigned_to_me")>>,
       <<"list_ids", JoinedField(options, "list_ids")>>,
       <<"space_ids", JoinedField(options, "space_ids")>>,
       <<"folder_ids", JoinedField(options, "folder_ids")>>,
       <<"statuses", JoinedField(options, "statuses")>>,
       <<"page", Field(options, "page")>> >>

searchTasksKey(query, options) ==
    createCacheKey("search", searchTasksCacheParams(query, options))

searchTasksParams(query, options) ==
    LET F(name) == Field(options, name)
        p1 == SetIf(query # "", <<>>, "query", query)
        p2 == SetIf(Truthy(F("include_closed")), p1, "include_closed", "true")
        p3 == SetIf(~IsUndef(F("page")), p2, "page", JsString(F("page")))
        p4 == AppendIf(p3, "list_ids[]", F("list_ids"))
        p5 == AppendIf(p4, "space_ids[]", F("space_ids"))
        p6 == AppendIf(p5, "folder_ids[]", F("folder_ids"))
        p7 == AppendIf(p6, "statuses[]", F("statuses"))
    IN p7

searchTasksEndpoint(query, options) ==
    WithQuery("/team/" \o teamId \o "/task", searchTasksParams(query, options))

Searches ==
    { <<"x", NoOptions>>,
      <<"", << <<"include_closed", Bool(TRUE)>>, <<"list_ids", Arr(<<"L1">>)>>,
               <<"space_ids", Undef>> >> >> }

searchTasksCalls ==
    Memo([ c \in Searches |->
             [ key |-> searchTasksKey(c[1], c[2]), endpoint |-> searchTasksEndpoint(c[1], c[2]) ] ])

(* searchTasks(query, options) for the calls <<query, options>> of a table *)
searchTasksOver(calls) ==
    \E search \in DOMAIN calls, st \in Statuses :
        /\ getOrFetch("searchTasks", search, calls[search].key,
                      request("GET", calls[search].endpoint, <<>>, st),
                      TTL_FIVE_MINUTES)
        /\ ReadFrame

searchTasks == searchTasksOver(searchTasksCalls)

---------------------------------------------------------------------------
(* Comment, time entry and user reads *)

(* createCacheKey("comments", { task: taskId, ...options }) *)
getTaskCommentsKey(taskId, options) ==
    createCacheKey("comments", << <<"task", Str(taskId)>> >> \o options)

getTaskCommentsParams(options) ==
    LET p1 == SetIf(Truthy(Field(options, "start")), <<>>, "start",
                    JsString(Field(options, "start")))
        p2 == SetIf(Truthy(Field(options, "start_id")), p1, "start_id",
                    JsString(Field(options, "start_id")))
    IN p2

getTaskCommentsEndpoint(taskId, options) ==
    WithQuery("/task/" \o taskId \o "/comment", getTaskCommentsParams(options))

CommentsOptions ==
    { NoOptions, << <<"start", Num(5)>>, <<"start_id", Str("c1")>> >> }

getTaskCommentsCalls ==
    Memo([ c \in TaskIds \X CommentsOptions |->
             [ key |-> getTaskCommentsKey(c[1], c[2]),
               endpoint |-> getTaskCommentsEndpoint(c[1], c[2]) ] ])

(* getTaskComments(taskId, options) for the calls <<taskId, options>> of a table *)
getTaskCommentsOver(calls) ==
    \E c \in DOMAIN calls, st \in Statuses :
        /\ getOrFetch("getTaskComments", c, calls[c].key,
                      request("GET", calls[c].endpoint, <<>>, st),
                      TTL_FIVE_MINUTES)
        /\ ReadFrame

getTaskComments == getTaskCommentsOver(getTaskCommentsCalls)

(* createCacheKey("time_entries", options || {}) *)
getTimeEntriesKey(options) == createCacheKey("time_entries", options)

getTimeEntriesParams(options) ==
    LET F(name) == Field(options, name)
        p1 == SetIf(Truthy(F("start_date")), <<>>, "start_date", JsString(F("start_date")))
        p2 == SetIf(Truthy(F("end_date")), p1, "end_date", JsString(F("end_date")))
        p3 == SetIf(Truthy(F("assignee")), p2, "assignee", JsString(F("assignee")))
        p4 == SetIf(Truthy(F("include_task_tags")), p3, "include_task_tags", "true")
        p5 == SetIf(Truthy(F("include_location_names")), p4, "include_location_names", "true")
        p6 == SetIf(Truthy(F("space_id")), p5, "space_id", JsString(F("space_id")))
        p7 == SetIf(Truthy(F("folder_id")), p6, "folder_id", JsString(F("folder_id")))
        p8 == SetIf(Truthy(F("list_id")), p7, "list_id", JsString(F("list_id")))
        p9 == SetIf(Truthy(F("task_id")), p8, "task_id", JsString(F("task_id")))
    IN p9

getTimeEntriesEndpoint(options) ==
    WithQuery("/team/" \o teamId \o "/time_entries", getTimeEntriesParams(options))

TimeEntriesOptions ==
    { NoOptions, << <<"task_id", Str("a")>>, <<"start_date", Num(3)>> >> }

getTimeEntriesCalls ==
    Memo([ options \in TimeEntriesOptions |->
             [ key |-> getTimeEntriesKey(options), endpoint |-> getTimeEntriesEndpoint(options) ] ])

(* getTimeEntries(options) for the calls of a table *)
getTimeEntriesOver(calls) ==
    \E options \in DOMAIN calls, st \in Statuses :
        /\ getOrFetch("getTimeEntries", <<options>>, calls[options].key,
                      request("GET", calls[options].endpoint, <<>>, st),
                      TTL_FIVE_MINUTES)
        /\ ReadFrame

getTimeEntries == getTimeEntriesOver(getTimeEntriesCalls)

getAuthorizedUser ==
    \E st \in Statuses :
        /\ getOrFetch("getAuthorizedUser", <<>>, "authorized_user",
                      request("GET", "/user", <<>>, st), TTL_HOUR)
        /\ ReadFrame

getTeamMembers ==
    \E st \in Statuses :
        /\ getOrFetch("getTeamMembers", <<>>, "team_members",
                      request("GET", "/team/" \o teamId, <<>>, st), TTL_HOUR)
        /\ ReadFrame

ReadOps ==
    { "getSpaces", "getSpace", "getFolders", "getLists", "getFolderlessLists", "getList",
      "getTasks", "getTask", "searchTasks", "getTaskComments", "getTimeEntries",
      "getAuthorizedUser", "getTeamMembers" }

---------------------------------------------------------------------------
(* Writes: one request, then the invalidations *)

RECURSIVE InvalidateKeys(_, _)
InvalidateKeys(c, keys) ==
    IF Len(keys) = 0 THEN c
    ELSE InvalidateKeys(CacheInvalidate(c, keys[1]), Tail(keys))

RECURSIVE InvalidatePatterns(_, _)
InvalidatePatterns(c, patterns) ==
    IF Len(patterns) = 0 THEN c
    ELSE InvalidatePatterns(CacheInvalidatePattern(c, patterns[1]), Tail(patterns))

(* a variant of Write that sends a request that succeeded once more *)
WriteTwice(op, args, r, keys, patterns, returns) ==
    IF r.ok
    THEN /\ remote' = Written(remote)
         /\ cache' = InvalidatePatterns(InvalidateKeys(cache, keys), patterns)
         /\ Completed(op, args, "", FALSE, r.reqs \o r.reqs, TRUE,
                      IF returns THEN r.value ELSE <<>>, "")
    ELSE /\ remote' = remote
         /\ cache' = cache
         /\ Completed(op, args, "", FALSE, r.reqs, FALSE, <<>>, r.error)

(* a variant of Write that invalidates before it awaits the request *)
WriteInvalidatingFirst(op, args, r, keys, patterns, returns) ==
    /\ remote' = IF r.ok THEN Written(remote) ELSE remote
    /\ cache' = InvalidatePatterns(InvalidateKeys(cache, keys), patterns)
    /\ Completed(op, args, "", FALSE, r.reqs, r.ok,
                 IF r.ok /\ returns THEN r.value ELSE <<>>, r.error)

(* const result = await this.request(...); <invalidations>; return result  *)
(* A request that fails throws before any invalidation runs.               *)
Write(op, args, r, keys, patterns, returns) ==
    IF r.ok
    THEN /\ remote' = Written(remote)
         /\ cache' = InvalidatePatterns(InvalidateKeys(cache, keys), patterns)
         /\ Completed(op, args, "", FALSE, r.reqs, TRUE,
                      IF returns THEN r.value ELSE <<>>, "")
    ELSE /\ remote' = remote
         /\ cache' = cache
         /\ Completed(op, args, "", FALSE, r.reqs, FALSE, <<>>, r.error)

WriteFrame == UNCHANGED <<cacheEnabled, cacheDisabled, now, disableCalled>>

(* a variant of createTaskPatterns without the search pattern *)
createTaskPatternsTasksOnly == <<"^tasks">>

(* cache.invalidatePattern(/^tasks/); cache.invalidatePattern(/^search/) *)
createTaskPatterns == <<"^tasks", "^search">>

CreateTaskData == { << <<"name", Str("x")>>, <<"description", Undef>> >> }

createTask ==
    \E listId \in ListIds, data \in CreateTaskData, st \in Statuses :
        /\ Write("createTask", <<listId, data>>,
                 request("POST", "/list/" \o listId \o "/task", <<data>>, st),
                 <<>>, createTaskPatterns, TRUE)
        /\ WriteFrame

(* a variant of updateTaskKeys that forgets the markdown entry *)
updateTaskKeysPlainOnly(taskId) == <<getTaskKey(taskId, FALSE)>>

(* cache.invalidate(createCacheKey("task", {id, markdown: false})), then true *)
updateTaskKeys(taskId) == <<getTaskKey(taskId, FALSE), getTaskKey(taskId, TRUE)>>

updateTaskPatterns == <<"^tasks", "^search">>

UpdateTaskData ==
    { << <<"status", Str("done")>> >>, << <<"list_id", Str("L2")>> >> }

updateTaskInvalidates ==
    Memo([ taskId \in TaskIds |-> updateTaskKeys(taskId) ])

(* a variant of updateTask that carries out a move to another list as a    *)
(* DELETE of the task followed by a POST to the list                       *)
updateTaskEmulatingMove ==
    \E taskId \in TaskIds, data \in UpdateTaskData, st \in Statuses :
        LET put == request("PUT", "/task/" \o taskId, <<data>>, st)
            move == [ put EXCEPT !.reqs =
                        << Fetch("DELETE", "/task/" \o taskId, <<>>, st),
                           Fetch("POST", "/list/" \o Field(data, "list_id").v \o "/task",
                                 <<data>>, st) >> ]
        IN /\ Write("updateTask", <<taskId, data>>,
                    IF IsUndef(Field(data, "list_id")) THEN put ELSE move,
                    updateTaskInvalidates[taskId], updateTaskPatterns, TRUE)
           /\ WriteFrame

updateTask ==
    \E taskId \in TaskIds, data \in UpdateTaskData, st \in Statuses :
        /\ Write("updateTask", <<taskId, data>>,
                 request("PUT", "/task/" \o taskId, <<data>>, st),
                 updateTaskInvalidates[taskId], updateTaskPatterns, TRUE)
        /\ WriteFrame

(* a variant of deleteTaskPatterns that spares the single-task entries *)
deleteTaskPatternsListsOnly == <<"^tasks", "^search">>

(* cache.invalidatePattern(/^task/); cache.invalidatePattern(/^search/) *)
deleteTaskPatterns == <<"^task", "^search">>

deleteTask ==
    \E taskId \in TaskIds, st \in Statuses :
        /\ Write("deleteTask", <<taskId>>,
                 request("DELETE", "/task/" \o taskId, <<>>, st),
                 <<>>, deleteTaskPatterns, FALSE)
        /\ WriteFrame

(* a variant of addCommentPatterns that expects the task id first in the key *)
addCommentPatternsTaskFirst(taskId) == << "^comments:task=" \o taskId >>

(* new RegExp(`^comments.*task=${taskId}`) *)
addCommentPatterns(taskId) == << "^comments.*task=" \o taskId >>

addCommentBody(commentText, notifyAll) ==
    << <<"comment_text", Str(commentText)>>, <<"notify_all", Bool(notifyAll)>> >>

addComment ==
    \E taskId \in TaskIds, st \in Statuses :
        /\ Write("addComment", <<taskId, "hi", FALSE>>,
                 request("POST", "/task/" \o taskId \o "/comment",
                         <<addCommentBody("hi", FALSE)>>, st),
                 <<>>, addCommentPatterns(taskId), TRUE)
        /\ WriteFrame

(* a variant of createTimeEntryPatterns that spares the unfiltered entry *)
createTimeEntryPatternsFiltered == <<"^time_entries:">>

(* cache.invalidatePattern(/^time_entries/) *)
createTimeEntryPatterns == <<"^time_entries">>

(* { ...data, tid: taskId } *)
createTimeEntryBody(taskId, data) == data \o << <<"tid", Str(taskId)>> >>

TimeEntryData == { << <<"start", Num(1)>>, <<"duration", Num(2)>> >> }

createTimeEntry ==
    \E taskId \in TaskIds, data \in TimeEntryData, st \in Statuses :
        /\ Write("createTimeEntry", <<taskId, data>>,
                 request("POST", "/team/" \o teamId \o "/time_entries",
                         <<createTimeEntryBody(taskId, data)>>, st),
                 <<>>, createTimeEntryPatterns, TRUE)
        /\ WriteFrame

WriteOps == { "createTask", "updateTask", "deleteTask", "addComment", "createTimeEntry" }

---------------------------------------------------------------------------
(* Cache control *)

(* a variant of disableCache that leaves both flags as they are *)
disableCacheNoEffect ==
    /\ UNCHANGED <<cache, cacheEnabled, cacheDisabled, now, remote>>
    /\ disableCalled' = TRUE
    /\ Completed("disableCache", <<>>, "", FALSE, <<>>, TRUE, <<>>, "")

disableCache ==
    /\ cacheDisabled' = TRUE
    /\ cacheEnabled' = FALSE
    /\ disableCalled' = TRUE
    /\ UNCHANGED <<cache, now, remote>>
    /\ Completed("disableCache", <<>>, "", FALSE, <<>>, TRUE, <<>>, "")

enableCache ==
    /\ cacheDisabled' = FALSE
    /\ cacheEnabled' = TRUE
    /\ disableCalled' = FALSE
    /\ UNCHANGED <<cache, now, remote>>
    /\ Completed("enableCache", <<>>, "", FALSE, <<>>, TRUE, <<>>, "")

clearCache ==
    /\ cache' = NoEntries
    /\ Completed("clearCache", <<>>, "", FALSE, <<>>, TRUE,
                 <<Cardinality(DOMAIN cache)>>, "")
    /\ UNCHANGED <<cacheEnabled, cacheDisabled, now, remote, disableCalled>>

invalidateCacheKey ==
    \E key \in DOMAIN cache \cup {"spaces"} :
        /\ cache' = CacheInvalidate(cache, key)
        /\ Completed("invalidateCacheKey", <<key>>, key, FALSE, <<>>, TRUE,
                     <<key \in DOMAIN cache>>, "")
        /\ UNCHANGED <<cacheEnabled, cacheDisabled, now, remote, disableCalled>>

---------------------------------------------------------------------------
(* The environment: time passes, and the remote data changes under other hands *)

Tick ==
    /\ now < MaxTime
    /\ now' = now + 1
    /\ UNCHANGED <<cache, cacheEnabled, cacheDisabled, remote, disableCalled, last, history, pending>>

RemoteChange ==
    /\ remote' \in (0..MaxVer) \ {remote}
    /\ UNCHANGED <<cache, cacheEnabled, cacheDisabled, now, disableCalled, last, history, pending>>

(* The caller makes one call at a time and takes its outcome before the next *)
Idle == last = NoOperation

(* a call made on its own, outside any script *)
Call == Idle /\ UNCHANGED <<history, pending>>

Return ==
    /\ last # NoOperation
    /\ last' = NoOperation
    /\ UNCHANGED <<cache, cacheEnabled, cacheDisabled, now, remote, disableCalled, history,
                   pending>>

Next ==
    \/ Call /\ getSpaces
    \/ Call /\ getSpace
    \/ Call /\ getFolders
    \/ Call /\ getLists
    \/ Call /\ getFolderlessLists
    \/ Call /\ getList
    \/ Call /\ getTasks
    \/ Call /\ getTask
    \/ Call /\ searchTasks
    \/ Call /\ getTaskComments
    \/ Call /\ getTimeEntries
    \/ Call /\ getAuthorizedUser
    \/ Call /\ getTeamMembers
    \/ Call /\ createTask
    \/ Call /\ updateTask
    \/ Call /\ deleteTask
    \/ Call /\ addComment
    \/ Call /\ createTimeEntry
    \/ Call /\ disableCache
    \/ Call /\ enableCache
    \/ Call /\ clearCache
    \/ Call /\ invalidateCacheKey
    \/ Tick
    \/ RemoteChange
    \/ Return

Spec == Init /\ [][Next]_vars

---------------------------------------------------------------------------
(* Callers that keep to one group of operations *)

NextReads ==
    \/ Call /\ getSpaces
    \/ Call /\ getSpace
    \/ Call /\ getFolders
    \/ Call /\ getLists
    \/ Call /\ getFolderlessLists
    \/ Call /\ getList
    \/ Call /\ getTasks
    \/ Call /\ getTask
    \/ Call /\ searchTasks
    \/ Call /\ getTaskComments
    \/ Call /\ getTimeEntries
    \/ Call /\ getAuthorizedUser
    \/ Call /\ getTeamMembers
    \/ Call /\ disableCache
    \/ Call /\ enableCache
    \/ Call /\ clearCache
    \/ Tick
    \/ Return

SpecReads == Init /\ [][NextReads]_vars

NextTasks ==
    \/ Call /\ getTasks
    \/ Call /\ getTask
    \/ Call /\ searchTasks
    \/ Call /\ createTask
    \/ Call /\ updateTask
    \/ Call /\ deleteTask
    \/ Call /\ disableCache
    \/ Call /\ enableCache
    \/ Tick
    \/ RemoteChange
    \/ Return

SpecTasks == Init /\ [][NextTasks]_vars

NextTracking ==
    \/ Call /\ getTask
    \/ Call /\ getTaskComments
    \/ Call /\ getTimeEntries
    \/ Call /\ addComment
    \/ Call /\ createTimeEntry
    \/ Call /\ disableCache
    \/ Call /\ enableCache
    \/ Tick
    \/ RemoteChange
    \/ Return

SpecTracking == Init /\ [][NextTracking]_vars

---------------------------------------------------------------------------
(* The CLI command update-task *)

(* the arguments of update-task besides the task id, as parsed *)
UpdateTaskArgs ==
    { << <<"list", Str("L2")>> >>,
      << <<"status", Str("done")>>, <<"list", Str("L2")>> >>,
      << <<"name", Str("n")>>, <<"priority", Num(2)>>, <<"dueDate", Num(7)>> >>,
      << <<"description", Str("")>>, <<"list", Str("")>> >> }

(* const updates = {}; if (name) updates.name = name; ... *)
updateTaskCommandUpdates(args) ==
    LET Set(updates, field, x) == IF Truthy(x) THEN Append(updates, <<field, x>>) ELSE updates
        u1 == Set(<<>>, "name", Field(args, "name"))
        u2 == Set(u1, "description", Field(args, "description"))
        u3 == Set(u2, "priority", Field(args, "priority"))
        u4 == Set(u3, "status", Field(args, "status"))
        u5 == Set(u4, "due_date", Field(args, "dueDate"))
        u6 == Set(u5, "list_id", Field(args, "list"))
    IN u6

updateTaskCommandCalls ==
    Memo([ args \in UpdateTaskArgs |-> updateTaskCommandUpdates(args) ])

(* update-task: builds the updates and returns client.updateTask(id, updates) *)
updateTaskCommand ==
    \E id \in TaskIds, args \in UpdateTaskArgs, st \in Statuses :
        /\ Write("update-task", <<id, args>>,
                 request("PUT", "/task/" \o id, <<updateTaskCommandCalls[args]>>, st),
                 updateTaskInvalidates[id], updateTaskPatterns, TRUE)
        /\ WriteFrame

NextUpdate ==
    \/ Call /\ updateTask
    \/ Call /\ updateTaskCommand
    \/ Call /\ getTask
    \/ Call /\ getTasks
    \/ RemoteChange
    \/ Return

SpecUpdate == Init /\ [][NextUpdate]_vars

---------------------------------------------------------------------------
(* searchSpaces and getAllLists: reads made of other reads *)

(* The hierarchy the remote service holds under each content: the spaces,  *)
(* the folderless lists and the folders of a space, the lists of a folder. *)
(* A list can be returned more than once.                                  *)
RemoteSpaces(content) ==
    IF content % 2 = 0
    THEN << [id |-> "s1", name |-> "Ops"], [id |-> "s2", name |-> "shop"] >>
    ELSE << [id |-> "s2", name |-> "shop"], [id |-> "s1", name |-> "Ops"] >>

RemoteFolderlessLists(content, spaceId) ==
    CASE spaceId = "s1" -> << [id |-> "L1", name |-> "Inbox"] >>
      [] spaceId = "s2" /\ content % 2 = 1 -> << [id |-> "L3", name |-> "Web"] >>
      [] OTHER -> <<>>

RemoteFolders(content, spaceId) ==
    CASE spaceId = "s1" /\ content % 2 = 0 -> << [id |-> "f1", name |-> "Dev"] >>
      [] spaceId = "s2" /\ content % 2 = 1 -> << [id |-> "f2", name |-> "Site"] >>
      [] OTHER -> <<>>

RemoteLists(content, folderId) ==
    CASE folderId = "f1" -> << [id |-> "L1", name |-> "Inbox"], [id |-> "L2", name |-> "Bugs"] >>
      [] folderId = "f2" /\ content % 2 = 1 ->
            << [id |-> "L3", name |-> "Web"], [id |-> "L3", name |-> "Web"] >>
      [] OTHER -> <<>>

(* the ids that occur in the hierarchy, and the keys and endpoints of the   *)
(* reads of each, computed once                                            *)
HierarchySpaceIds == {"s1", "s2"}

HierarchyFolderIds == {"f1", "f2"}

getFolderlessListsCalls ==
    Memo([ spaceId \in HierarchySpaceIds |->
             [ key |-> getFolderlessListsKey(spaceId),
               endpoint |-> "/space/" \o spaceId \o "/list" ] ])

getFoldersCalls ==
    Memo([ spaceId \in HierarchySpaceIds |->
             [ key |-> getFoldersKey(spaceId),
               endpoint |-> "/space/" \o spaceId \o "/folder" ] ])

getListsCalls ==
    Memo([ folderId \in HierarchyFolderIds |->
             [ key |-> getListsKey(folderId),
               endpoint |-> "/folder/" \o folderId \o "/list" ] ])

(* F applied to the value v, with v computed once *)
With(v, F(_)) == CHOOSE y \in { F(x) : x \in {v} } : TRUE

(* cache.getOrFetch(key, producer, {ttl, bypassCache}) on the cache c as a  *)
(* function: the cache afterwards, the requests sent and the value or the  *)
(* error.  store tells whether a disabled cache stores what it fetched.    *)
(* The keys these reads store under are those of the hierarchy, which      *)
(* bounds the entries they add.                                            *)
Through(c, key, r, ttl, store) ==
    IF cacheEnabled /\ ~BypassCache /\ CacheFresh(c, key, now)
    THEN [ cache |-> c, hit |-> TRUE, reqs |-> <<>>, ok |-> TRUE,
           value |-> c[key].value, error |-> "" ]
    ELSE IF ~r.ok
    THEN [ cache |-> c, hit |-> FALSE, reqs |-> r.reqs, ok |-> FALSE,
           value |-> 0, error |-> r.error ]
    ELSE [ cache |-> IF cacheEnabled \/ store
                     THEN CachePut(c, key, r.value[1], ttl, now) ELSE c,
           hit |-> FALSE, reqs |-> r.reqs, ok |-> TRUE,
           value |-> r.value[1], error |-> "" ]

Upper == "ABCDEFGHIJKLMNOPQRSTUVWXYZ"

Lower == "abcdefghijklmnopqrstuvwxyz"

(* a variant of ToLowerCase that leaves the string as it is *)
ToLowerCaseNot(s) == s

RECURSIVE ToLowerCase(_)
(* String.prototype.toLowerCase *)
ToLowerCase(s) ==
    IF Len(s) = 0 THEN ""
    ELSE LET c == Head(s)
             l == IF InString(c, Upper)
                  THEN CharAt(Lower, CHOOSE i \in 1..Len(Upper) : CharAt(Upper, i) = c)
                  ELSE c
         IN l \o ToLowerCase(Tail(s))

(* String.prototype.includes *)
Includes(s, text) ==
    \E i \in 0..(Len(s) - Len(text)) : SubSeq(s, i + 1, i + Len(text)) = text

Queries == {Undef, Str(""), Str("op"), Str("OPS"), Str("Sh"), Str("x")}

searchSpaces ==
    \E query \in Queries, st \in Statuses,
       store \in (IF cacheEnabled THEN {TRUE} ELSE BOOLEAN) :
        LET t == Through(cache, "spaces", request("GET", getSpacesEndpoint, <<>>, st),
                         TTL_HOUR, store)
            spaces == RemoteSpaces(t.value)
            lowerQuery == ToLowerCase(query.v)
            matches == IF ~Truthy(query) THEN spaces
                       ELSE SelectSeq(spaces,
                                LAMBDA sp : Includes(ToLowerCase(sp.name), lowerQuery))
        IN /\ cache' = t.cache
           /\ Completed("searchSpaces", <<query>>, "spaces", t.hit, t.reqs, t.ok,
                        IF t.ok THEN <<matches>> ELSE <<>>, t.error)
           /\ ReadFrame

(* The traversal of getAllLists so far: the cache, the requests sent, the  *)
(* lists collected, and whether a sub-request has failed.  The failAt-th   *)
(* request the traversal sends, if it sends as many, meets the status st   *)
(* and every other one is answered 200.                                    *)
Visit(acc, key, endpoint, ttl, failAt, st, store) ==
    IF ~acc.ok THEN acc
    ELSE LET status == IF Len(acc.reqs) + 1 = failAt THEN st ELSE 200
         IN With(Through(acc.cache, key, request("GET", endpoint, <<>>, status), ttl, store),
                 LAMBDA t : [ cache |-> t.cache, reqs |-> acc.reqs \o t.reqs, ok |-> t.ok,
                              error |-> t.error, value |-> t.value, lists |-> acc.lists ])

(* allLists.push({...list, spaceName}) for each list *)
PushFolderless(acc, lists, space) ==
    [ acc EXCEPT !.lists = @ \o [ i \in 1..Len(lists) |->
        [ id |-> lists[i].id, name |-> lists[i].name, spaceName |-> space.name ] ] ]

(* a variant of PushFoldered that leaves out a list collected before *)
PushFolderedOnce(acc, lists, space, folder) ==
    LET fresh == SelectSeq(lists, LAMBDA l :
                    \A i \in 1..Len(acc.lists) : acc.lists[i].id # l.id)
    IN [ acc EXCEPT !.lists = @ \o [ i \in 1..Len(fresh) |->
            [ id |-> fresh[i].id, name |-> fresh[i].name, spaceName |-> space.name,
              folderName |-> folder.name ] ] ]

(* allLists.push({...list, spaceName, folderName}) for each list *)
PushFoldered(acc, lists, space, folder) ==
    [ acc EXCEPT !.lists = @ \o [ i \in 1..Len(lists) |->
        [ id |-> lists[i].id, name |-> lists[i].name, spaceName |-> space.name,
          folderName |-> folder.name ] ] ]

RECURSIVE ForFolders(_, _, _, _, _, _)
(* for (const folder of folders) { getLists(folder.id); push each } *)
ForFolders(acc, folders, space, failAt, st, store) ==
    IF ~acc.ok \/ Len(folders) = 0 THEN acc
    ELSE With(Visit(acc, getListsCalls[folders[1].id].key,
                    getListsCalls[folders[1].id].endpoint,
                    TTL_FIFTEEN_MINUTES, failAt, st, store),
              LAMBDA a :
                ForFolders(IF a.ok
                           THEN PushFoldered(a, RemoteLists(a.value, folders[1].id),
                                             space, folders[1])
                           ELSE a,
                           Tail(folders), space, failAt, st, store))

RECURSIVE ForSpaces(_, _, _, _, _)
(* for (const space of spaces) { getFolderlessLists; push each; getFolders; *)
(* for each folder ... }                                                   *)
ForSpaces(acc, spaces, failAt, st, store) ==
    IF ~acc.ok \/ Len(spaces) = 0 THEN acc
    ELSE LET space == spaces[1]
         IN With(Visit(acc, getFolderlessListsCalls[space.id].key,
                       getFolderlessListsCalls[space.id].endpoint, TTL_FIFTEEN_MINUTES,
                       failAt, st, store),
              LAMBDA a1 :
                With(Visit(IF a1.ok
                           THEN PushFolderless(a1, RemoteFolderlessLists(a1.value, space.id),
                                               space)
                           ELSE a1,
                           getFoldersCalls[space.id].key, getFoldersCalls[space.id].endpoint,
                           TTL_FIFTEEN_MINUTES, failAt, st, store),
                  LAMBDA a2 :
                    ForSpaces(IF a2.ok
                              THEN ForFolders(a2, RemoteFolders(a2.value, space.id), space,
                                              failAt, st, store)
                              ELSE a2,
                              Tail(spaces), failAt, st, store)))

(* the most requests one getAllLists sends over the hierarchies above: one *)
(* for the spaces, two for each space and one for each folder              *)
MaxSubRequests ==
    1 + 2 * Cardinality(HierarchySpaceIds) + Cardinality(HierarchyFolderIds)

(* the whole traversal: getSpaces(), then the loop over the spaces *)
Traverse(failAt, st, store) ==
    With(Visit([ cache |-> cache, reqs |-> <<>>, ok |-> TRUE, error |-> "",
                 value |-> 0, lists |-> <<>> ],
               "spaces", getSpacesEndpoint, TTL_HOUR, failAt, st, store),
         LAMBDA a : IF a.ok
                    THEN ForSpaces(a, RemoteSpaces(a.value), failAt, st, store)
                    ELSE a)

getAllLists ==
    \E failAt \in 0..MaxSubRequests, st \in { x \in Statuses : ~ResponseOk(x) },
       store \in (IF cacheEnabled THEN {TRUE} ELSE BOOLEAN) :
        LET done == Traverse(failAt, st, store)
        IN /\ cache' = done.cache
           /\ Completed("getAllLists", <<>>, "", FALSE, done.reqs, done.ok,
                        IF done.ok THEN <<done.lists>> ELSE <<>>, done.error)
           /\ ReadFrame

NextDerived ==
    \/ Call /\ searchSpaces
    \/ Call /\ getAllLists
    \/ Call /\ getSpaces
    \/ Call /\ disableCache
    \/ Call /\ enableCache
    \/ Call /\ clearCache
    \/ RemoteChange
    \/ Return

SpecDerived == Init /\ [][NextDerived]_vars

---------------------------------------------------------------------------
(* The CLI command search *)

(* the arguments of search as parsed; assignedToMe is the flag the README  *)
(* lists, which the command's schema and handler do not name               *)
SearchArgs ==
    { <<>>,
      << <<"query", Str("x")>> >>,
      << <<"excludeClosed", Bool(TRUE)>> >>,
      << <<"excludeClosed", Bool(FALSE)>>, <<"query", Str("")>> >>,
      << <<"query", Str("x")>>, <<"list", Str("L1")>>, <<"excludeClosed", Bool(TRUE)>> >>,
      << <<"space", Str("s1")>>, <<"list", Str("")>> >>,
      << <<"query", Str("x")>>, <<"assignedToMe", Bool(TRUE)>> >> }

(* a variant of searchCommandOptions that passes excludeClosed on as it is *)
searchCommandOptionsNotNegated(args) ==
    << <<"include_closed", Bool(Truthy(Field(args, "excludeClosed")))>>,
       <<"list_ids", IF Truthy(Field(args, "list"))
                     THEN Arr(<<Field(args, "list").v>>) ELSE Undef>>,
       <<"space_ids", IF Truthy(Field(args, "space"))
                      THEN Arr(<<Field(args, "space").v>>) ELSE Undef>> >>

(* { include_closed: !excludeClosed, list_ids: list ? [list] : undefined,  *)
(*   space_ids: space ? [space] : undefined }                              *)
searchCommandOptions(args) ==
    << <<"include_closed", Bool(~Truthy(Field(args, "excludeClosed")))>>,
       <<"list_ids", IF Truthy(Field(args, "list"))
                     THEN Arr(<<Field(args, "list").v>>) ELSE Undef>>,
       <<"space_ids", IF Truthy(Field(args, "space"))
                      THEN Arr(<<Field(args, "space").v>>) ELSE Undef>> >>

(* query || "" *)
searchCommandQuery(args) ==
    IF Truthy(Field(args, "query")) THEN Field(args, "query").v ELSE ""

searchCommandCalls ==
    Memo([ args \in SearchArgs |->
             [ key |-> searchTasksKey(searchCommandQuery(args), searchCommandOptions(args)),
               endpoint |-> searchTasksEndpoint(searchCommandQuery(args),
                                                searchCommandOptions(args)) ] ])

(* { count: result.length, tasks: result.map(...) } of the tasks found *)
searchCommandResult(tasks) == [ count |-> "length", tasks |-> tasks ]

(* search: client.searchTasks(query || "", options), summarised *)
searchCommand ==
    \E args \in SearchArgs, st \in Statuses,
       store \in (IF cacheEnabled THEN {TRUE} ELSE BOOLEAN) :
        LET t == Through(cache, searchCommandCalls[args].key,
                         request("GET", searchCommandCalls[args].endpoint, <<>>, st),
                         TTL_FIVE_MINUTES, store)
        IN /\ Cardinality(DOMAIN t.cache) <= MaxEntries
           /\ cache' = t.cache
           /\ Completed("search", <<args>>, searchCommandCalls[args].key, t.hit, t.reqs,
                        t.ok, IF t.ok THEN <<searchCommandResult(t.value)>> ELSE <<>>,
                        t.error)
           /\ ReadFrame

SearchesAssigned ==
    { <<"x", << <<"assigned_to_me", Bool(TRUE)>> >> >>,
      <<"x", << <<"assigned_to_me", Bool(FALSE)>> >> >>,
      <<"", << <<"assigned_to_me", Bool(TRUE)>>, <<"include_closed", Bool(TRUE)>> >> >>,
      <<"x", NoOptions>> }

searchTasksCallsAssigned ==
    Memo([ c \in SearchesAssigned |->
             [ key |-> searchTasksKey(c[1], c[2]), endpoint |-> searchTasksEndpoint(c[1], c[2]) ] ])

NextSearch ==
    \/ Call /\ searchCommand
    \/ Call /\ searchTasksOver(searchTasksCallsAssigned)
    \/ Call /\ disableCache
    \/ Call /\ enableCache
    \/ Call /\ clearCache
    \/ Tick
    \/ RemoteChange
    \/ Return

SpecSearch == Init /\ [][NextSearch]_vars

---------------------------------------------------------------------------
(* A caller that does not wait: a read and a write of the task group whose *)
(* requests are in flight together.  A call is issued, its request is      *)
(* answered by the remote service, and the call settles when the answer    *)
(* reaches it; between these the other call may move.                      *)

TaskReads ==
    { [ op |-> "getTasks", args |-> c, key |-> getTasksCalls[c].key,
        endpoint |-> getTasksCalls[c].endpoint ] : c \in ListIds \X {NoOptions} }
    \cup { [ op |-> "getTask", args |-> c, key |-> getTaskCalls[c].key,
             endpoint |-> getTaskCalls[c].endpoint ] : c \in TaskIds \X {FALSE} }
    \cup { [ op |-> "searchTasks", args |-> c, key |-> searchTasksCalls[c].key,
             endpoint |-> searchTasksCalls[c].endpoint ] : c \in {<<"x", NoOptions>>} }

TaskWrites ==
    { [ op |-> "createTask", args |-> <<listId, data>>, method |-> "POST",
        endpoint |-> "/list/" \o listId \o "/task", body |-> <<data>>,
        keys |-> <<>>, patterns |-> createTaskPatterns, returns |-> TRUE ] :
        listId \in ListIds, data \in CreateTaskData }
    \cup { [ op |-> "updateTask", args |-> <<taskId, data>>, method |-> "PUT",
             endpoint |-> "/task/" \o taskId, body |-> <<data>>,
             keys |-> updateTaskInvalidates[taskId], patterns |-> updateTaskPatterns,
             returns |-> TRUE ] : taskId \in TaskIds, data \in UpdateTaskData }
    \cup { [ op |-> "deleteTask", args |-> <<taskId>>, method |-> "DELETE",
             endpoint |-> "/task/" \o taskId, body |-> <<>>,
             keys |-> <<>>, patterns |-> deleteTaskPatterns, returns |-> FALSE ] :
             taskId \in TaskIds }

(* what request yields for a fetch the remote service answered with st and *)
(* data when it served it                                                  *)
Answered(method, endpoint, body, st, data) ==
    LET r == request(method, endpoint, body, st)
    IN [ r EXCEPT !.value = IF ResponseOk(st) THEN <<data>> ELSE <<>>,
                  !.reqs = << [ r.reqs[1] EXCEPT
                                  !.data = IF ResponseOk(st) THEN <<data>> ELSE <<>> ] >> ]

(* whether the invalidations of the write w remove an entry under key *)
Invalidates(w, key) ==
    key \notin DOMAIN InvalidatePatterns(
                   InvalidateKeys(CachePut(NoEntries, key, 0, 1, 0), w.keys), w.patterns)

ConcurrentFrame == UNCHANGED <<cacheEnabled, cacheDisabled, now, disableCalled, history>>

(* a read is called: getOrFetch returns a fresh entry at once, or invokes  *)
(* the producer, whose request goes out                                    *)
issueRead ==
    /\ Idle
    /\ pending.read = <<>>
    /\ \E r \in TaskReads :
          IF cacheEnabled /\ ~BypassCache /\ CacheFresh(cache, r.key, now)
          THEN /\ cache' = cache
               /\ Completed(r.op, r.args, r.key, TRUE, <<>>, TRUE, <<cache[r.key].value>>, "")
               /\ UNCHANGED pending
          ELSE /\ pending' = [ pending EXCEPT !.read =
                                 << [ call |-> r, answered |-> FALSE, status |-> 0,
                                      data |-> 0, early |-> FALSE ] >> ]
               /\ UNCHANGED <<cache, last>>
    /\ UNCHANGED remote
    /\ ConcurrentFrame

(* the remote service answers the read's request with the data it holds *)
answerRead ==
    /\ pending.read # <<>>
    /\ ~pending.read[1].answered
    /\ \E st \in Statuses :
          pending' = [ pending EXCEPT !.read =
                         << [ pending.read[1] EXCEPT !.answered = TRUE, !.status = st,
                                                     !.data = remote ] >> ]
    /\ UNCHANGED <<cache, remote, last>>
    /\ ConcurrentFrame

(* the answer reaches the read: the producer returns or throws, and        *)
(* getOrFetch stores what it returned                                      *)
settleRead ==
    /\ Idle
    /\ pending.read # <<>>
    /\ pending.read[1].answered
    /\ LET p == pending.read[1]
           r == Answered("GET", p.call.endpoint, <<>>, p.status, p.data)
           rest == [ pending EXCEPT
                       !.read = <<>>,
                       !.write = IF pending.write = <<>> THEN <<>>
                                 ELSE << [ pending.write[1] EXCEPT !.after = FALSE ] >> ]
       IN IF ~r.ok
          THEN /\ cache' = cache
               /\ pending' = rest
               /\ Completed(p.call.op, p.call.args, p.call.key, FALSE, r.reqs, FALSE,
                            <<>>, r.error)
          ELSE /\ \E store \in (IF cacheEnabled THEN {TRUE} ELSE BOOLEAN) :
                    IF store
                    THEN /\ ~(p.call.key \notin DOMAIN cache
                                /\ Cardinality(DOMAIN cache) >= MaxEntries)
                         /\ cache' = CachePut(cache, p.call.key, r.value[1],
                                              TTL_FIVE_MINUTES, now)
                         /\ pending' = [ rest EXCEPT !.old =
                                           IF p.early THEN pending.old \cup {p.call.key}
                                           ELSE pending.old \ {p.call.key} ]
                    ELSE /\ cache' = cache
                         /\ pending' = rest
               /\ Completed(p.call.op, p.call.args, p.call.key, FALSE, r.reqs, TRUE,
                            r.value, "")
    /\ UNCHANGED remote
    /\ ConcurrentFrame

(* a write is called: its request goes out.  after tells whether the read  *)
(* in flight had been answered before.                                     *)
issueWrite ==
    /\ Idle
    /\ pending.write = <<>>
    /\ \E w \in TaskWrites :
          pending' = [ pending EXCEPT !.write =
                         << [ call |-> w, applied |-> FALSE, status |-> 0, data |-> 0,
                              after |-> pending.read # <<>> /\ pending.read[1].answered ] >> ]
    /\ UNCHANGED <<cache, remote, last>>
    /\ ConcurrentFrame

(* the remote service answers the write's request, applying it if it       *)
(* answers 2xx                                                             *)
applyWrite ==
    /\ pending.write # <<>>
    /\ ~pending.write[1].applied
    /\ \E st \in Statuses :
          /\ remote' = IF ResponseOk(st) THEN Written(remote) ELSE remote
          /\ pending' = [ pending EXCEPT !.write =
                            << [ pending.write[1] EXCEPT !.applied = TRUE, !.status = st,
                                                         !.data = Written(remote) ] >> ]
    /\ UNCHANGED <<cache, last>>
    /\ ConcurrentFrame

(* the answer reaches the write: request returns or throws, and on return  *)
(* the invalidations run                                                   *)
settleWrite ==
    /\ Idle
    /\ pending.write # <<>>
    /\ pending.write[1].applied
    /\ LET p == pending.write[1]
           w == p.call
           r == Answered(w.method, w.endpoint, w.body, p.status, p.data)
       IN IF r.ok
          THEN /\ cache' = InvalidatePatterns(InvalidateKeys(cache, w.keys), w.patterns)
               /\ pending' =
                    [ read  |-> IF pending.read = <<>> THEN <<>>
                                ELSE << [ pending.read[1] EXCEPT !.early =
                                            \/ pending.read[1].early
                                            \/ /\ p.after
                                               /\ Invalidates(w, pending.read[1].call.key) ] >>,
                      write |-> <<>>,
                      old   |-> pending.old \cap DOMAIN cache' ]
               /\ Completed(w.op, w.args, "", FALSE, r.reqs, TRUE,
                            IF w.returns THEN r.value ELSE <<>>, "")
          ELSE /\ cache' = cache
               /\ pending' = [ pending EXCEPT !.write = <<>> ]
               /\ Completed(w.op, w.args, "", FALSE, r.reqs, FALSE, <<>>, r.error)
    /\ UNCHANGED remote
    /\ ConcurrentFrame

NextConcurrent ==
    \/ issueRead
    \/ answerRead
    \/ settleRead
    \/ issueWrite
    \/ applyWrite
    \/ settleWrite
    \/ Return

SpecConcurrent == Init /\ [][NextConcurrent]_vars

---------------------------------------------------------------------------
(* Construction of the client from config.json *)

(* What config.json can hold: rawConfig.clickup absent or an object with   *)
(* apiKey and teamId, rawConfig.mcpServer absent, without env, or with an  *)
(* env that has CLICKUP_API_KEY and CLICKUP_TEAM_ID, and rawConfig.teamId.  *)
(* Each value is absent, the empty string or a proper value; an absent     *)
(* object is <<>>.                                                         *)
ApiKeys == {Undef, Str(""), Str("k")}

TeamIds == {Undef, Str(""), Str(teamId)}

RawConfigs ==
    [ clickup   : {<<>>} \cup { <<c>> : c \in [apiKey : ApiKeys, teamId : TeamIds] },
      mcpServer : {<<>>, << [env |-> <<>>] >>}
                  \cup { << [env |-> <<e>>] >> :
                            e \in [CLICKUP_API_KEY : ApiKeys, CLICKUP_TEAM_ID : TeamIds] },
      teamId    : TeamIds ]

(* a || b *)
Or(a, b) == IF Truthy(a) THEN a ELSE b

(* a variant of credentials that takes each value from whichever shape has it *)
credentialsMixed(rawConfig) ==
    LET direct == IF rawConfig.clickup # <<>> THEN rawConfig.clickup[1]
                  ELSE [apiKey |-> Undef, teamId |-> Undef]
        env == IF rawConfig.mcpServer # <<>> /\ rawConfig.mcpServer[1].env # <<>>
               THEN rawConfig.mcpServer[1].env[1]
               ELSE [CLICKUP_API_KEY |-> Undef, CLICKUP_TEAM_ID |-> Undef]
    IN [ apiKey |-> Or(direct.apiKey, env.CLICKUP_API_KEY),
         teamId |-> Or(direct.teamId, Or(env.CLICKUP_TEAM_ID, rawConfig.teamId)) ]

(* the apiKey and teamId the constructor reads from rawConfig *)
credentials(rawConfig) ==
    IF rawConfig.clickup # <<>>
    THEN [ apiKey |-> rawConfig.clickup[1].apiKey, teamId |-> rawConfig.clickup[1].teamId ]
    ELSE IF rawConfig.mcpServer # <<>> /\ rawConfig.mcpServer[1].env # <<>>
    THEN [ apiKey |-> rawConfig.mcpServer[1].env[1].CLICKUP_API_KEY,
           teamId |-> Or(rawConfig.mcpServer[1].env[1].CLICKUP_TEAM_ID, rawConfig.teamId) ]
    ELSE [ apiKey |-> Undef, teamId |-> Undef ]

MissingConfig == "Missing required config in config.json: clickup.apiKey, clickup.teamId"

(* new ClickUpClient(): throws when a value is missing, and sets            *)
(* this.config otherwise; it sends nothing                                 *)
constructor ==
    \E rawConfig \in RawConfigs :
        LET c == credentials(rawConfig)
            missing == ~Truthy(c.apiKey) \/ ~Truthy(c.teamId)
        IN /\ cache' = cache
           /\ Completed("constructor", <<rawConfig>>, "", FALSE, <<>>, ~missing,
                        IF missing THEN <<>> ELSE <<c>>,
                        IF missing THEN MissingConfig ELSE "")
           /\ UNCHANGED <<cacheEnabled, cacheDisabled, now, remote, disableCalled>>

NextConfig ==
    \/ Call /\ constructor
    \/ Return

SpecConfig == Init /\ [][NextConfig]_vars

---------------------------------------------------------------------------
(* A caller that polls: it repeats one read, so that the cache never holds *)
(* another key than the key of that read, and lets time pass between the   *)
(* calls, up to and past each TTL                                          *)

(* the moments at which the poller looks: just before and at the end of    *)
(* each TTL counted from the start                                         *)
Moments ==
    {0} \cup { ttl - d : ttl \in {TTL_FIVE_MINUTES, TTL_FIFTEEN_MINUTES, TTL_HOUR},
                         d \in {0, TTL_FIVE_MINUTES} }

(* time passes until a later moment *)
Wait ==
    /\ \E m \in Moments : m > now /\ now' = m
    /\ UNCHANGED <<cache, cacheEnabled, cacheDisabled, remote, disableCalled, last, history, pending>>

Polled == DOMAIN cache' \subseteq {last'.key}

NextTTL ==
    \/ Call /\ getSpaces /\ Polled
    \/ Call /\ getSpace /\ Polled
    \/ Call /\ getFolders /\ Polled
    \/ Call /\ getLists /\ Polled
    \/ Call /\ getFolderlessLists /\ Polled
    \/ Call /\ getList /\ Polled
    \/ Call /\ getTasks /\ Polled
    \/ Call /\ getTask /\ Polled
    \/ Call /\ searchTasks /\ Polled
    \/ Call /\ getTaskComments /\ Polled
    \/ Call /\ getTimeEntries /\ Polled
    \/ Call /\ getAuthorizedUser /\ Polled
    \/ Call /\ getTeamMembers /\ Polled
    \/ Wait
    \/ RemoteChange
    \/ Return

SpecTTL == Init /\ [][NextTTL]_vars

---------------------------------------------------------------------------
(* A scripted caller: on a fresh cache it calls getSpaces(), getSpaces(),   *)
(* createTask("L1", {name}), getTasks("L1", {}) and getTasks("L1", {}) in   *)
(* this order, and stops at the first call that fails.  Time passes and    *)
(* the remote data changes as they please.                                 *)

(* the script is at its k-th call *)
Step(k) ==
    /\ Idle
    /\ Len(history) = k - 1
    /\ \A i \in 1..Len(history) : history[i].ok
    /\ UNCHANGED pending

(* the outcome of the call is added to the history *)
Logged == history' = Append(history, last')

NextScenario ==
    \/ Step(1) /\ getSpaces /\ Logged
    \/ Step(2) /\ getSpaces /\ Logged
    \/ Step(3) /\ createTask /\ last'.args[1] = "L1" /\ Logged
    \/ Step(4) /\ getTasks /\ last'.args = <<"L1", NoOptions>> /\ Logged
    \/ Step(5) /\ getTasks /\ last'.args = <<"L1", NoOptions>> /\ Logged
    \/ Tick
    \/ RemoteChange
    \/ Return

SpecScenario == Init /\ [][NextScenario]_vars

---------------------------------------------------------------------------
(* The derivation of cache keys and query strings: the option-taking reads *)
(* called with parameters spelled in different ways (fields in another     *)
(* order, fields passed as undefined, arrays that differ in their elements *)
(* only, falsy values)                                                     *)

TasksOptionsWide ==
    TasksOptions \cup
    { << <<"page", Num(0)>>, <<"include_closed", Bool(FALSE)>>,
         <<"due_date_lt", Num(7)>>, <<"statuses", Arr(<<"open", "review">>)>> >>,
      << <<"statuses", Arr(<<"open", "review">>)>>, <<"archived", Undef>>,
         <<"due_date_lt", Num(7)>>, <<"include_closed", Bool(FALSE)>>, <<"page", Num(0)>> >>,
      << <<"statuses", Arr(<<"open,review">>)>>, <<"due_date_lt", Num(7)>>,
         <<"include_closed", Bool(FALSE)>>, <<"page", Num(0)>> >>,
      << <<"statuses", Arr(<<"review", "open">>)>>, <<"due_date_lt", Num(7)>>,
         <<"include_closed", Bool(FALSE)>>, <<"page", Num(0)>> >>,
      << <<"statuses", Undef>> >>,
      << <<"assignees", Arr(<<"1", "2">>)>>, <<"archived", Bool(FALSE)>>,
         <<"subtasks", Bool(TRUE)>>, <<"order_by", Str("due_date")>> >>,
      << <<"order_by", Str("due_date")>>, <<"subtasks", Bool(TRUE)>>,
         <<"archived", Bool(FALSE)>>, <<"assignees", Arr(<<"1", "2">>)>> >>,
      << <<"include_closed", Bool(TRUE)>>, <<"page", Num(1)>> >>,
      << <<"due_date_gt", Num(0)>>, <<"reverse", Bool(FALSE)>> >> }

getTasksCallsWide ==
    Memo([ c \in ListIds \X TasksOptionsWide |->
             [ key |-> getTasksKey(c[1], c[2]), endpoint |-> getTasksEndpoint(c[1], c[2]) ] ])

SearchesWide ==
    Searches \cup
    { <<"", << <<"list_ids", Arr(<<"L1">>)>>, <<"include_closed", Bool(TRUE)>> >> >>,
      <<"x", << <<"statuses", Undef>>, <<"page", Undef>> >> >>,
      <<"x", << <<"space_ids", Arr(<<"s1", "s2">>)>>, <<"folder_ids", Arr(<<"f1">>)>> >> >>,
      <<"x", << <<"folder_ids", Arr(<<"f1">>)>>, <<"space_ids", Arr(<<"s1", "s2">>)>> >> >>,
      <<"x", << <<"space_ids", Arr(<<"s1,s2">>)>>, <<"folder_ids", Arr(<<"f1">>)>> >> >>,
      <<"x", << <<"statuses", Arr(<<"open">>)>>, <<"page", Num(1)>> >> >> }

searchTasksCallsWide ==
    Memo([ c \in SearchesWide |->
             [ key |-> searchTasksKey(c[1], c[2]), endpoint |-> searchTasksEndpoint(c[1], c[2]) ] ])

CommentsOptionsWide ==
    CommentsOptions \cup
    { << <<"start_id", Str("c1")>>, <<"start", Num(5)>> >>,
      << <<"start", Undef>> >>,
      << <<"start", Num(5)>>, <<"start_id", Str("c2")>> >> }

getTaskCommentsCallsWide ==
    Memo([ c \in TaskIds \X CommentsOptionsWide |->
             [ key |-> getTaskCommentsKey(c[1], c[2]),
               endpoint |-> getTaskCommentsEndpoint(c[1], c[2]) ] ])

TimeEntriesOptionsWide ==
    TimeEntriesOptions \cup
    { << <<"start_date", Num(3)>>, <<"task_id", Str("a")>> >>,
      << <<"task_id", Str("a")>>, <<"assignee", Undef>>, <<"start_date", Num(3)>> >>,
      << <<"end_date", Undef>> >>,
      << <<"task_id", Str("ab")>>, <<"start_date", Num(3)>> >>,
      << <<"include_task_tags", Bool(TRUE)>>, <<"list_id", Str("L1")>> >> }

getTimeEntriesCallsWide ==
    Memo([ options \in TimeEntriesOptionsWide |->
             [ key |-> getTimeEntriesKey(options), endpoint |-> getTimeEntriesEndpoint(options) ] ])

NextKeys ==
    \/ Call /\ getTasksOver(getTasksCallsWide)
    \/ Call /\ getTask
    \/ Call /\ searchTasksOver(searchTasksCallsWide)
    \/ Call /\ getTaskCommentsOver(getTaskCommentsCallsWide)
    \/ Call /\ getTimeEntriesOver(getTimeEntriesCallsWide)
    \/ Tick
    \/ Return

SpecKeys == Init /\ [][NextKeys]_vars

---------------------------------------------------------------------------
(* A caller that supplies filters with the values false, 0 and "" *)

TasksOptionsFalsy ==
    { << <<"include_closed", Bool(FALSE)>> >>,
      << <<"reverse", Bool(FALSE)>>, <<"subtasks", Bool(FALSE)>> >>,
      << <<"order_by", Str("")>>, <<"due_date_lt", Num(0)>> >>,
      << <<"date_created_gt", Num(0)>>, <<"date_updated_lt", Num(7)>> >>,
      << <<"include_closed", Bool(TRUE)>>, <<"reverse", Bool(TRUE)>>,
         <<"order_by", Str("due_date")>>, <<"due_date_gt", Num(7)>> >> }

getTasksCallsFalsy ==
    Memo([ c \in ListIds \X TasksOptionsFalsy |->
             [ key |-> getTasksKey(c[1], c[2]), endpoint |-> getTasksEndpoint(c[1], c[2]) ] ])

CommentsOptionsFalsy ==
    { << <<"start", Num(0)>> >>,
      << <<"start", Num(5)>>, <<"start_id", Str("")>> >>,
      << <<"start", Num(5)>>, <<"start_id", Str("c1")>> >> }

getTaskCommentsCallsFalsy ==
    Memo([ c \in TaskIds \X CommentsOptionsFalsy |->
             [ key |-> getTaskCommentsKey(c[1], c[2]),
               endpoint |-> getTaskCommentsEndpoint(c[1], c[2]) ] ])

TimeEntriesOptionsFalsy ==
    { << <<"start_date", Num(0)>>, <<"end_date", Num(7)>> >>,
      << <<"assignee", Num(0)>> >>,
      << <<"include_task_tags", Bool(FALSE)>>, <<"include_location_names", Bool(TRUE)>> >>,
      << <<"start_date", Num(3)>>, <<"assignee", Num(4)>>, <<"include_task_tags", Bool(TRUE)>> >> }

getTimeEntriesCallsFalsy ==
    Memo([ options \in TimeEntriesOptionsFalsy |->
             [ key |-> getTimeEntriesKey(options), endpoint |-> getTimeEntriesEndpoint(options) ] ])

NextFilters ==
    \/ Call /\ getTasksOver(getTasksCallsFalsy)
    \/ Call /\ getTaskCommentsOver(getTaskCommentsCallsFalsy)
    \/ Call /\ getTimeEntriesOver(getTimeEntriesCallsFalsy)
    \/ Call /\ clearCache
    \/ Tick
    \/ Return

SpecFilters == Init /\ [][NextFilters]_vars

---------------------------------------------------------------------------
(* Properties *)

(* the TTL each read is specified to cache under *)
ReadTTL(op) ==
    CASE op \in {"getSpaces", "getSpace", "getAuthorizedUser", "getTeamMembers"} -> TTL_HOUR
      [] op \in {"getFolders", "getLists", "getFolderlessLists", "getList"} ->
            TTL_FIFTEEN_MINUTES
      [] OTHER -> TTL_FIVE_MINUTES

(* the read that has just completed is called once more with the same arguments *)
ReadAgain ==
    /\ \/ last.op = "getSpaces" /\ getSpaces
       \/ last.op = "getSpace" /\ getSpace
       \/ last.op = "getFolders" /\ getFolders
       \/ last.op = "getLists" /\ getLists
       \/ last.op = "getFolderlessLists" /\ getFolderlessLists
       \/ last.op = "getList" /\ getList
       \/ last.op = "getTasks" /\ getTasks
       \/ last.op = "getTask" /\ getTask
       \/ last.op = "searchTasks" /\ searchTasks
       \/ last.op = "getTaskComments" /\ getTaskComments
       \/ last.op = "getTimeEntries" /\ getTimeEntries
       \/ last.op = "getAuthorizedUser" /\ getAuthorizedUser
       \/ last.op = "getTeamMembers" /\ getTeamMembers
    /\ last'.op = last.op
    /\ last'.args = last.args

(* any read *)
AnyRead ==
    \/ getSpaces \/ getSpace \/ getFolders \/ getLists \/ getFolderlessLists \/ getList
    \/ getTasks \/ getTask \/ searchTasks \/ getTaskComments \/ getTimeEntries
    \/ getAuthorizedUser \/ getTeamMembers

(* C1: when a read has fetched its result through an enabled cache, then    *)
(* as long as no other operation has run and less than the read's TTL has   *)
(* passed, the same read with the same arguments can be called again, and   *)
(* every such call sends no request and returns the result of the first:    *)
(* the two calls together issue exactly one network call.                   *)
C1_SecondReadServedFromCache ==
    ( /\ last.op \in ReadOps
      /\ last.ok
      /\ Len(last.reqs) = 1
      /\ cacheEnabled
      /\ ~disableCalled
      /\ now < last.fetchedAt + ReadTTL(last.op) )
    => /\ ENABLED ReadAgain
       /\ ~ENABLED (ReadAgain /\ ~(last'.reqs = <<>> /\ last'.result = last.result))

(* a read returned the cached result without a request, after time had     *)
(* passed and although the remote data had changed since it was fetched    *)
C1_ServedFromCache ==
    /\ last.op \in ReadOps
    /\ last.hit
    /\ last.reqs = <<>>
    /\ cacheEnabled
    /\ now > 0
    /\ last.result # <<remote>>

(* C2: from disableCache() until enableCache(), whatever the cache holds,   *)
(* every read the caller can make sends exactly one request, and when the   *)
(* request is answered 2xx the read returns what the remote service holds   *)
(* at that moment.                                                          *)
C2_DisabledReadsAreLive ==
    (disableCalled /\ Idle)
    => /\ ENABLED AnyRead
       /\ ~ENABLED (AnyRead /\ ~( /\ Len(last'.reqs) = 1
                                  /\ ~last'.hit
                                  /\ last'.ok => last'.result = <<remote>> ))

(* with the cache disabled a read returned the live data although the      *)
(* cache held an unexpired entry with other data under the read's key       *)
C2_LiveDespiteFreshEntry ==
    /\ disableCalled
    /\ last.op \in ReadOps
    /\ last.ok
    /\ Len(last.reqs) = 1
    /\ CacheFresh(cache, last.key, now)
    /\ last.result = <<remote>>
    /\ cache[last.key].value # remote

(* key begins with prefix *)
StartsWith(key, prefix) ==
    Len(key) >= Len(prefix) /\ SubSeq(key, 1, Len(prefix)) = prefix

(* the keys held by the cache, or removed by the last operation, that begin with prefix *)
Held(prefix) == { k \in DOMAIN cache : StartsWith(k, prefix) }

Dropped(prefix) == { k \in last.dropped : StartsWith(k, prefix) }

(* a read that sends no request *)
Unfetched(read) == read /\ Len(last'.reqs) # 1

(* C3: once createTask has succeeded the cache holds no entry whose key     *)
(* begins with "tasks" or with "search", and every getTasks and             *)
(* searchTasks the caller can make next sends a request.                    *)
C3_CreateTaskInvalidates ==
    (last.op = "createTask" /\ last.ok)
    => /\ Held("tasks") = {}
       /\ Held("search") = {}
       /\ ENABLED getTasks
       /\ ENABLED searchTasks
       /\ ~ENABLED Unfetched(getTasks)
       /\ ~ENABLED Unfetched(searchTasks)

(* createTask succeeded and removed a task-list entry and a search entry *)
C3_CreateTaskDropped ==
    /\ last.op = "createTask"
    /\ last.ok
    /\ Dropped("tasks") # {}
    /\ Dropped("search") # {}

(* C4: once updateTask(id, data) has succeeded, whatever data carried, the  *)
(* cache holds neither single-task entry of that id (markdown false and     *)
(* markdown true) and no entry whose key begins with "tasks" or "search",   *)
(* and every getTask of that id the caller can make next sends a request.   *)
C4_UpdateTaskInvalidates ==
    (last.op = "updateTask" /\ last.ok)
    => /\ \A includeMarkdown \in BOOLEAN :
             getTaskCalls[<<last.args[1], includeMarkdown>>].key \notin DOMAIN cache
       /\ Held("tasks") = {}
       /\ Held("search") = {}
       /\ ENABLED getTask
       /\ ~ENABLED (Unfetched(getTask) /\ last'.args[1] = last.args[1])

(* updateTask succeeded and removed both single-task entries of its task *)
C4_UpdateTaskDroppedBoth ==
    /\ last.op = "updateTask"
    /\ last.ok
    /\ last.dropped = { getTaskCalls[<<last.args[1], includeMarkdown>>].key :
                          includeMarkdown \in BOOLEAN }

(* C5: once deleteTask has succeeded the cache holds no entry whose key     *)
(* begins with "task" (single-task entries of any id and flag, and task     *)
(* lists) or with "search", so every getTask, getTasks and searchTasks the  *)
(* caller can make next sends a request.                                    *)
C5_DeleteTaskInvalidates ==
    (last.op = "deleteTask" /\ last.ok)
    => /\ Held("task") = {}
       /\ Held("search") = {}
       /\ ENABLED getTask
       /\ ~ENABLED Unfetched(getTask)
       /\ ~ENABLED Unfetched(getTasks)
       /\ ~ENABLED Unfetched(searchTasks)

(* deleteTask succeeded and removed a task list and the single-task entry  *)
(* of another task than the one deleted                                    *)
C5_DeleteTaskDropped ==
    /\ last.op = "deleteTask"
    /\ last.ok
    /\ Dropped("tasks") # {}
    /\ \E taskId \in TaskIds \ {last.args[1]}, includeMarkdown \in BOOLEAN :
           getTaskCalls[<<taskId, includeMarkdown>>].key \in last.dropped

(* the keys under which the comments of a task are cached *)
CommentsKeys(taskId) ==
    { getTaskCommentsCalls[<<taskId, options>>].key : options \in CommentsOptions }

(* C6: once addComment(taskId, text) has succeeded the cache holds no       *)
(* comments entry of that task, whether it was cached with the pagination   *)
(* parameters start and start_id or without, and every getTaskComments of   *)
(* that task the caller can make next sends a request.                      *)
C6_AddCommentInvalidates ==
    (last.op = "addComment" /\ last.ok)
    => /\ CommentsKeys(last.args[1]) \cap DOMAIN cache = {}
       /\ ENABLED getTaskComments
       /\ ~ENABLED (Unfetched(getTaskComments) /\ last'.args[1] = last.args[1])

(* addComment succeeded and removed the task's comments entries cached     *)
(* with and without pagination parameters                                  *)
C6_AddCommentDroppedPaged ==
    /\ last.op = "addComment"
    /\ last.ok
    /\ CommentsKeys(last.args[1]) \subseteq last.dropped
    /\ Cardinality(CommentsKeys(last.args[1])) = 2

(* C7: once createTimeEntry has succeeded the cache holds no entry whose    *)
(* key begins with "time_entries", whatever filters it was cached under,    *)
(* and every getTimeEntries the caller can make next sends a request.       *)
C7_CreateTimeEntryInvalidates ==
    (last.op = "createTimeEntry" /\ last.ok)
    => /\ Held("time_entries") = {}
       /\ ENABLED getTimeEntries
       /\ ~ENABLED Unfetched(getTimeEntries)

(* createTimeEntry succeeded and removed the time entries cached without   *)
(* filters and those cached under filters                                  *)
C7_CreateTimeEntryDropped ==
    /\ last.op = "createTimeEntry"
    /\ last.ok
    /\ "time_entries" \in last.dropped
    /\ Cardinality(Dropped("time_entries:")) >= 1

(* text occurs in s *)
Contains(s, text) ==
    \E i \in 1..(Len(s) - Len(text) + 1) : SubSeq(s, i, i + Len(text) - 1) = text

(* the fetch the last operation made last *)
LastFetch == last.reqs[Len(last.reqs)]

(* the last operation's request was answered with a status outside 200..299 *)
AnsweredNon2xx ==
    /\ last.reqs # <<>>
    /\ LastFetch.status # 0
    /\ ~ResponseOk(LastFetch.status)

(* C8: an operation whose request is answered with a non-2xx status fails:  *)
(* it returns no result at all, and the error it fails with carries the     *)
(* status code and the raw text of the response body.                       *)
C8_Non2xxFailsWithStatusAndBody ==
    AnsweredNon2xx
    => /\ ~last.ok
       /\ last.result = <<>>
       /\ LastFetch.text # ""
       /\ Contains(last.error, NumToStr(LastFetch.status))
       /\ Contains(last.error, LastFetch.text)

(* getTask was answered 404 and failed *)
C8_GetTaskNotFound ==
    /\ last.op = "getTask"
    /\ AnsweredNon2xx
    /\ LastFetch.status = 404
    /\ ~last.ok

(* C9: an operation whose request fails, by a non-2xx answer or by the      *)
(* fetch itself, has sent that request exactly once, and fails with the     *)
(* error of that one attempt: there is no second attempt.                   *)
C9_FailedCallIssuedOnce ==
    (last.op \in ReadOps \cup WriteOps /\ ~last.ok)
    => /\ Len(last.reqs) = 1
       /\ ~ResponseOk(last.reqs[1].status)
       /\ last.error = IF last.reqs[1].status = 0 THEN FetchFailed
                        ELSE ErrorMessage(last.reqs[1].status, last.reqs[1].text)

(* a write failed on a fetch that met no response, after one attempt *)
C9_WriteFailedOnce ==
    /\ last.op \in WriteOps
    /\ ~last.ok
    /\ Len(last.reqs) = 1
    /\ last.reqs[1].status = 0

(* C10: an operation whose request is rejected for rate limiting (429)      *)
(* sends the request again rather than fail on the first rejection.  The    *)
(* client does not do so: request throws on the first 429.                  *)
C10_RateLimitRetried ==
    (last.reqs # <<>> /\ last.reqs[1].status = 429)
    => (Len(last.reqs) >= 2 \/ last.ok)


---------------------------------------------------------------------------
(* Cache keys and query strings *)

OptionReads == {"getTasks", "searchTasks", "getTaskComments", "getTimeEntries"}

(* two option objects that hold the same values: a field that is undefined *)
(* counts as a field that is absent, and the order of the fields does not  *)
(* count                                                                   *)
SameOptions(o1, o2) ==
    \A name \in ObjectKeys(o1) \cup ObjectKeys(o2) : Field(o1, name) = Field(o2, name)

(* two argument lists of an option-taking read that are semantically equal *)
SameArguments(a, b) ==
    /\ Len(a) = Len(b)
    /\ \A i \in 1..(Len(a) - 1) : a[i] = b[i]
    /\ SameOptions(a[Len(a)], b[Len(b)])

(* the calls of the option-taking reads the wide tables hold, as <<op, args>> *)
KeyedCalls ==
    { <<"getTasks", c>> : c \in DOMAIN getTasksCallsWide }
    \cup { <<"searchTasks", c>> : c \in DOMAIN searchTasksCallsWide }
    \cup { <<"getTaskComments", c>> : c \in DOMAIN getTaskCommentsCallsWide }
    \cup { <<"getTimeEntries", <<c>> >> : c \in DOMAIN getTimeEntriesCallsWide }

(* the key and the endpoint the client derives for a call *)
Derived(call) ==
    CASE call[1] = "getTasks" -> getTasksCallsWide[call[2]]
      [] call[1] = "searchTasks" -> searchTasksCallsWide[call[2]]
      [] call[1] = "getTaskComments" -> getTaskCommentsCallsWide[call[2]]
      [] call[1] = "getTimeEntries" -> getTimeEntriesCallsWide[call[2][1]]

(* for each call, the calls of the same operation with semantically equal  *)
(* parameters                                                              *)
Respellings ==
    Memo([ call \in KeyedCalls |->
             { other \in KeyedCalls :
                 other[1] = call[1] /\ SameArguments(call[2], other[2]) } ])

(* C11: after any option-taking read, every call of the same operation     *)
(* whose parameters are semantically equal to those of the read (the same  *)
(* values, with the fields in any order and with undefined fields counting *)
(* as omitted) derives the key the read derived.                           *)
C11_EqualParametersSameKey ==
    last.op \in OptionReads
    => \A other \in Respellings[<<last.op, last.args>>] : Derived(other).key = last.key

(* a read was served from the cache under parameters that list the fields  *)
(* in another order than the parameters of the tables' first spelling, and *)
(* a read was made with a field passed as undefined                        *)
C11_RespelledReadCompleted ==
    /\ last.op = "getTimeEntries"
    /\ last.hit
    /\ last.args = << << <<"task_id", Str("a")>>, <<"assignee", Undef>>,
                         <<"start_date", Num(3)>> >> >>
    /\ last.key = getTimeEntriesKey(<< <<"start_date", Num(3)>>, <<"task_id", Str("a")>> >>)
(* C12: after any read of getTasks, searchTasks, getTaskComments,           *)
(* getTimeEntries or getTask, every call of the same operation whose        *)
(* request differs from the request of the read derives a key other than   *)
(* the key of the read, so that the entry the read stored is never served  *)
(* to the other call.                                                      *)
C12_DifferentRequestsDifferentKeys ==
    /\ last.op \in OptionReads
       => \A other \in KeyedCalls :
            ( /\ other[1] = last.op
              /\ Derived(other).endpoint # Derived(<<last.op, last.args>>).endpoint )
            => Derived(other).key # last.key
    /\ last.op = "getTask"
       => \A other \in DOMAIN getTaskCalls :
            getTaskCalls[other].endpoint # getTaskCalls[last.args].endpoint
            => getTaskCalls[other].key # last.key
(* the filters getTasks accepts *)
TasksFilters ==
    { "archived", "include_closed", "page", "order_by", "reverse", "subtasks",
      "statuses", "assignees", "due_date_gt", "due_date_lt", "date_created_gt",
      "date_created_lt", "date_updated_gt", "date_updated_lt" }

(* the pairs a supplied filter stands for: one name[]=element pair per     *)
(* element of an array in its order, one name=value pair for another value *)
(* and none for a filter that is omitted                                   *)
FilterPairs(name, x) ==
    IF IsUndef(x) THEN <<>>
    ELSE IF x.t = "arr" THEN [ i \in 1..Len(x.v) |-> <<name \o "[]", x.v[i]>> ]
    ELSE << <<name, JsString(x)>> >>

(* the query string of a URL between two "&", empty when the URL has none *)
QueryOf(url, path) ==
    IF Len(url) > Len(path) + 1
    THEN "&" \o SubSeq(url, Len(path) + 2, Len(url)) \o "&"
    ELSE ""

(* C13: the request of getTasks(listId, options) is a GET on the list's     *)
(* task endpoint whose query string holds, for every filter options         *)
(* supplies, its pairs (one statuses[] or assignees[] pair per array        *)
(* element in the given order, one pair for any other filter), holds no    *)
(* other pair and no parameter of a filter options omits, and is absent    *)
(* when options supplies no filter.                                        *)
C13_QueryHoldsEverySuppliedFilter ==
    (last.op = "getTasks" /\ last.reqs # <<>>)
    => LET options == last.args[2]
           url == last.reqs[1].url
           path == baseUrl \o "/list/" \o last.args[1] \o "/task"
           query == QueryOf(url, path)
           pairs(name) == FilterPairs(name, Field(options, name))
           total == Cardinality({ c \in TasksFilters \X (1..2) : c[2] <= Len(pairs(c[1])) })
       IN /\ Len(last.reqs) = 1
          /\ last.reqs[1].method = "GET"
          /\ StartsWith(url, path)
          /\ total = 0 => url = path
          /\ total > 0 => ( /\ Len(url) > Len(path) + 1
                            /\ CharAt(url, Len(path) + 1) = "?" )
          /\ Cardinality({ i \in 1..Len(query) : CharAt(query, i) = "&" })
                = (IF total = 0 THEN 0 ELSE total + 1)
          /\ \A name \in TasksFilters :
                IF pairs(name) = <<>>
                THEN /\ ~Contains(query, "&" \o name \o "=")
                     /\ ~Contains(query, "&" \o UrlEncode(name \o "[]") \o "=")
                ELSE Contains(query, "&" \o ParamsToString(pairs(name)) \o "&")
---------------------------------------------------------------------------
(* Configuration *)

(* a value a shape of the configuration yields: present and not empty *)
Yields(x) == x.t = "str" /\ x.v # ""

(* the direct shape yields both the credential and the workspace id *)
DirectComplete(rawConfig) ==
    /\ rawConfig.clickup # <<>>
    /\ Yields(rawConfig.clickup[1].apiKey)
    /\ Yields(rawConfig.clickup[1].teamId)

(* the legacy shape yields both the credential and the workspace id *)
LegacyComplete(rawConfig) ==
    /\ rawConfig.mcpServer # <<>>
    /\ rawConfig.mcpServer[1].env # <<>>
    /\ Yields(rawConfig.mcpServer[1].env[1].CLICKUP_API_KEY)
    /\ Yields(rawConfig.mcpServer[1].env[1].CLICKUP_TEAM_ID)

(* the legacy shape yields the credential, and the workspace id is given   *)
(* at the top level of the configuration                                   *)
LegacyWithTopLevelTeam(rawConfig) ==
    /\ rawConfig.mcpServer # <<>>
    /\ rawConfig.mcpServer[1].env # <<>>
    /\ Yields(rawConfig.mcpServer[1].env[1].CLICKUP_API_KEY)
    /\ Yields(rawConfig.teamId)

(* the construction failed with the configuration error, having sent nothing *)
FailedOnConfiguration ==
    /\ ~last.ok
    /\ last.error = MissingConfig
    /\ last.reqs = <<>>
    /\ last.result = <<>>

(* C14 as stated: whenever neither the direct shape nor the legacy shape   *)
(* of the configuration yields both a credential and a workspace id, the   *)
(* construction fails with the configuration error and sends nothing.      *)
C14_FailsWhenNeitherShapeComplete ==
    ( /\ last.op = "constructor"
      /\ ~DirectComplete(last.args[1])
      /\ ~LegacyComplete(last.args[1]) )
    => FailedOnConfiguration

(* C14, amended: whenever neither the direct shape nor the legacy shape    *)
(* yields both values, and the legacy credential does not come with a      *)
(* top-level teamId either, the construction fails with the configuration  *)
(* error, which names the missing fields, and sends nothing.               *)
C14_FailsWhenNoSourceComplete ==
    ( /\ last.op = "constructor"
      /\ ~DirectComplete(last.args[1])
      /\ ~LegacyComplete(last.args[1])
      /\ ~LegacyWithTopLevelTeam(last.args[1]) )
    => /\ FailedOnConfiguration
       /\ Contains(last.error, "clickup.apiKey")
       /\ Contains(last.error, "clickup.teamId")

(* the construction failed on a configuration whose legacy shape has the   *)
(* credential but no workspace id anywhere                                 *)
C14_ConstructionFailed ==
    /\ last.op = "constructor"
    /\ FailedOnConfiguration
    /\ last.args[1].clickup = <<>>
    /\ last.args[1].mcpServer # <<>>
    /\ last.args[1].mcpServer[1].env # <<>>
    /\ Yields(last.args[1].mcpServer[1].env[1].CLICKUP_API_KEY)
    /\ ~Yields(last.args[1].mcpServer[1].env[1].CLICKUP_TEAM_ID)
    /\ ~Yields(last.args[1].teamId)
---------------------------------------------------------------------------
(* The scripted caller *)

RECURSIVE Requests(_)
(* the requests of a sequence of calls, in the order in which they were sent *)
Requests(calls) ==
    IF Len(calls) = 0 THEN <<>>
    ELSE calls[1].reqs \o Requests(Tail(calls))

(* the method and the URL of each request *)
Sent(reqs) == [ i \in 1..Len(reqs) |-> <<reqs[i].method, reqs[i].url>> ]

(* the script has run to its end without a failure, and the second          *)
(* getTasks was made less than five minutes after the first                 *)
ScriptDone ==
    /\ Len(history) = 5
    /\ \A i \in 1..5 : history[i].ok
    /\ now < history[4].fetchedAt + TTL_FIVE_MINUTES

(* C15: when the script getSpaces, getSpaces, createTask("L1", {name}),      *)
(* getTasks("L1", {}), getTasks("L1", {}) has run on a fresh cache within    *)
(* the TTLs, exactly three requests were sent, in this order: the GET of   *)
(* the first getSpaces, the POST of createTask and the GET of the first    *)
(* getTasks; the second getSpaces and the second getTasks returned the     *)
(* cached results without a request, and createTask, whose invalidation    *)
(* matched no entry, removed nothing and succeeded.                        *)
C15_ScriptSendsThreeRequests ==
    ScriptDone
    => /\ Sent(Requests(history))
            = << <<"GET", baseUrl \o "/team/" \o teamId \o "/space">>,
                 <<"POST", baseUrl \o "/list/L1/task">>,
                 <<"GET", baseUrl \o "/list/L1/task">> >>
       /\ Len(history[1].reqs) = 1
       /\ history[2].reqs = <<>> /\ history[2].result = history[1].result
       /\ Len(history[3].reqs) = 1 /\ history[3].dropped = {}
       /\ Len(history[4].reqs) = 1
       /\ history[5].reqs = <<>> /\ history[5].result = history[4].result

(* the script has run to its end, time has passed during it and the remote *)
(* data is no longer what the second getTasks returned                     *)
C15_ScriptCompleted ==
    /\ ScriptDone
    /\ now > 0
    /\ history[5].result # <<remote>>
---------------------------------------------------------------------------
(* Writes *)

(* any write *)
AnyWrite == createTask \/ updateTask \/ deleteTask \/ addComment \/ createTimeEntry

(* the outcome of a write that sent exactly one request, a POST, PUT or    *)
(* DELETE, and took what it returns from the response to that request      *)
OneWriteRequest(w) ==
    /\ Len(w.reqs) = 1
    /\ ~w.hit
    /\ w.reqs[1].method = (CASE w.op = "updateTask" -> "PUT"
                             [] w.op = "deleteTask" -> "DELETE"
                             [] OTHER -> "POST")
    /\ w.ok = ResponseOk(w.reqs[1].status)
    /\ w.ok => w.result = (IF w.op = "deleteTask" THEN <<>> ELSE w.reqs[1].data)

(* C16: a write that has completed has sent exactly one request and was    *)
(* not answered from the cache; and whenever the caller is about to make a *)
(* call, whatever the cache holds and whether it is enabled or disabled,   *)
(* each write can be made and every outcome of it sends exactly one        *)
(* request.                                                                *)
C16_WriteSendsOneRequest ==
    /\ last.op \in WriteOps => OneWriteRequest(last)
    /\ Idle => /\ ENABLED createTask /\ ENABLED updateTask /\ ENABLED deleteTask
               /\ ENABLED addComment /\ ENABLED createTimeEntry
               /\ ~ENABLED (AnyWrite /\ ~OneWriteRequest(last'))

(* a write succeeded on one request while the cache was disabled and held  *)
(* entries                                                                 *)
C16_WriteOnDisabledCache ==
    /\ last.op = "createTimeEntry"
    /\ last.ok
    /\ Len(last.reqs) = 1
    /\ cacheDisabled /\ ~cacheEnabled
    /\ Cardinality(DOMAIN cache) = MaxEntries
---------------------------------------------------------------------------
(* Expiry *)

(* the TTL of the operation that reads under a key: one hour for spaces,   *)
(* space, authorized user and team members, fifteen minutes for folders,   *)
(* lists, folderless lists and list, five minutes for the rest             *)
KeyTTL(key) ==
    IF \/ key \in {"spaces", "authorized_user", "team_members"}
       \/ StartsWith(key, "space:")
    THEN TTL_HOUR
    ELSE IF \E prefix \in {"folders:", "lists:", "folderless_lists:", "list:"} :
                StartsWith(key, prefix)
    THEN TTL_FIFTEEN_MINUTES
    ELSE TTL_FIVE_MINUTES

(* a read has fetched its result through the enabled cache, and nothing    *)
(* but time has passed since                                               *)
FetchedThroughCache ==
    /\ last.op \in ReadOps
    /\ last.ok
    /\ Len(last.reqs) = 1
    /\ cacheEnabled
    /\ ~cacheDisabled

(* C17: no entry of the cache outlives the TTL of its operation; and after *)
(* a read has fetched its result through the cache, the same read is       *)
(* served from the cache without a request as long as less than the        *)
(* operation's TTL has passed since the fetch, while once the TTL has      *)
(* passed the same read sends one request and, when it succeeds, puts its  *)
(* new result in the place of the entry, to be kept for one TTL from then. *)
C17_ServedOnlyWithinTTL ==
    /\ \A key \in DOMAIN cache : cache[key].expiry <= now + KeyTTL(key)
    /\ FetchedThroughCache
       => /\ KeyTTL(last.key) = ReadTTL(last.op)
          /\ ENABLED ReadAgain
          /\ IF now < last.fetchedAt + ReadTTL(last.op)
             THEN ~ENABLED (ReadAgain /\ ~(last'.reqs = <<>> /\ last'.result = last.result))
             ELSE /\ ~ENABLED (ReadAgain /\ Len(last'.reqs) # 1)
                  /\ ~ENABLED ( /\ ReadAgain
                                /\ last'.ok
                                /\ ~( /\ last'.key \in DOMAIN cache'
                                      /\ cache'[last'.key].value = last'.result[1]
                                      /\ cache'[last'.key].expiry = now + ReadTTL(last.op)
                                      /\ last'.fetchedAt = now ) )

(* one hour after getSpaces fetched the spaces, with the remote data       *)
(* changed since, the entry is still there and has just expired            *)
C17_HourElapsed ==
    /\ FetchedThroughCache
    /\ last.op = "getSpaces"
    /\ now = last.fetchedAt + TTL_HOUR
    /\ "spaces" \in DOMAIN cache
    /\ cache["spaces"].expiry = now
    /\ last.result # <<remote>>
---------------------------------------------------------------------------
(* Reads made of other reads *)

(* two characters that are the same letter, in whatever case *)
SameLetter(c, d) ==
    \/ c = d
    \/ \E i \in 1..Len(Upper) : {c, d} = {CharAt(Upper, i), CharAt(Lower, i)}

(* name contains text as a substring, ignoring letter case *)
ContainsIgnoringCase(name, text) ==
    \E i \in 0..(Len(name) - Len(text)) :
        \A j \in 1..Len(text) : SameLetter(CharAt(name, i + j), CharAt(text, j))

(* the content the last operation took for a key: what its request to url  *)
(* was answered with, or else what the cache holds                         *)
Used(key, url) ==
    IF \E i \in 1..Len(last.reqs) : last.reqs[i].url = url
    THEN last.reqs[CHOOSE i \in 1..Len(last.reqs) : last.reqs[i].url = url].data[1]
    ELSE cache[key].value

(* C18: searchSpaces(query) takes the spaces from the cache under the key  *)
(* of getSpaces exactly when getSpaces would, and otherwise with the one   *)
(* request getSpaces sends; it returns the spaces whose name contains the  *)
(* query ignoring letter case, in the order of the remote service, or all  *)
(* spaces when the query is absent or empty.                               *)
C18_SearchSpacesFilters ==
    /\ Idle => ( ENABLED (searchSpaces /\ last'.reqs = <<>>)
                 <=> ENABLED (getSpaces /\ last'.reqs = <<>>) )
    /\ last.op = "searchSpaces"
       => /\ last.key = "spaces"
          /\ Len(last.reqs) <= 1
          /\ \A i \in 1..Len(last.reqs) :
                /\ last.reqs[i].method = "GET"
                /\ last.reqs[i].url = baseUrl \o getSpacesEndpoint
          /\ last.ok
             => LET query == last.args[1]
                    spaces == RemoteSpaces(Used("spaces", baseUrl \o getSpacesEndpoint))
                IN last.result[1] =
                      IF IsUndef(query) \/ query.v = "" THEN spaces
                      ELSE SelectSeq(spaces,
                               LAMBDA sp : ContainsIgnoringCase(sp.name, query.v))

(* searchSpaces("OPS") found the space "Ops" in the cached spaces, without *)
(* a request, and left out the space "shop"                                *)
C18_FoundIgnoringCase ==
    /\ last.op = "searchSpaces"
    /\ last.hit
    /\ last.args = <<Str("OPS")>>
    /\ last.result = << << [id |-> "s1", name |-> "Ops"] >> >>
RECURSIVE Flatten(_)
(* the concatenation of a sequence of sequences *)
Flatten(seqs) ==
    IF Len(seqs) = 0 THEN <<>> ELSE seqs[1] \o Flatten(Tail(seqs))

(* the folders of a space as the last getAllLists took them *)
FoldersUsed(space) ==
    RemoteFolders(Used(getFoldersCalls[space.id].key,
                       baseUrl \o getFoldersCalls[space.id].endpoint), space.id)

(* The sub-reads a getAllLists that succeeded had to make, in order, as    *)
(* <<key, URL>>: the spaces, then for each space in order its folderless   *)
(* lists, its folders, and the lists of each of its folders in order       *)
SubReads ==
    LET spaces == RemoteSpaces(Used("spaces", baseUrl \o getSpacesEndpoint))
        OfFolder(folder) == << getListsCalls[folder.id].key,
                               baseUrl \o getListsCalls[folder.id].endpoint >>
        OfSpace(space) ==
            << << getFolderlessListsCalls[space.id].key,
                  baseUrl \o getFolderlessListsCalls[space.id].endpoint >>,
               << getFoldersCalls[space.id].key,
                  baseUrl \o getFoldersCalls[space.id].endpoint >> >>
            \o [ j \in 1..Len(FoldersUsed(space)) |-> OfFolder(FoldersUsed(space)[j]) ]
    IN << <<"spaces", baseUrl \o getSpacesEndpoint>> >>
       \o Flatten([ i \in 1..Len(spaces) |-> OfSpace(spaces[i]) ])

(* The lists a getAllLists that succeeded has to return: every list as     *)
(* often as it was returned, with the name of its space and, when it was   *)
(* found in a folder, the name of the folder                               *)
AnnotatedLists ==
    LET spaces == RemoteSpaces(Used("spaces", baseUrl \o getSpacesEndpoint))
        InFolder(space, folder) ==
            LET lists == RemoteLists(Used(getListsCalls[folder.id].key,
                                          baseUrl \o getListsCalls[folder.id].endpoint),
                                     folder.id)
            IN [ k \in 1..Len(lists) |->
                   [ id |-> lists[k].id, name |-> lists[k].name,
                     spaceName |-> space.name, folderName |-> folder.name ] ]
        InSpace(space) ==
            LET lists == RemoteFolderlessLists(
                            Used(getFolderlessListsCalls[space.id].key,
                                 baseUrl \o getFolderlessListsCalls[space.id].endpoint),
                            space.id)
            IN [ k \in 1..Len(lists) |->
                   [ id |-> lists[k].id, name |-> lists[k].name, spaceName |-> space.name ] ]
               \o Flatten([ j \in 1..Len(FoldersUsed(space)) |->
                              InFolder(space, FoldersUsed(space)[j]) ])
    IN Flatten([ i \in 1..Len(spaces) |-> InSpace(spaces[i]) ])

(* C19: a getAllLists that succeeded has sent, of the sub-reads spaces,    *)
(* then per space in order folderless lists, folders and the lists of each *)
(* folder in order, those the cache did not serve, each once and in that   *)
(* order (all of them when the cache is disabled), every one a GET that    *)
(* was answered before the next was sent, and returns every list as often  *)
(* as it was returned, annotated with its space's name and, for a list of  *)
(* a folder, the folder's name.  A getAllLists that failed did so on its   *)
(* last request, returns nothing, and up to that request sent what the     *)
(* call would have sent had the request succeeded.                         *)
C19_GetAllListsTraversal ==
    /\ last.op = "getAllLists"
       => /\ \A i \in 1..Len(last.reqs) :
                /\ last.reqs[i].method = "GET"
                /\ ResponseOk(last.reqs[i].status) <=> (i < Len(last.reqs) \/ last.ok)
          /\ ~last.ok
             => /\ last.result = <<>>
                /\ last.reqs # <<>>
                /\ last.error = IF LastFetch.status = 0 THEN FetchFailed
                                ELSE ErrorMessage(LastFetch.status, LastFetch.text)
          /\ last.ok
             => /\ [ i \in 1..Len(last.reqs) |-> last.reqs[i].url ]
                      = SelectSeq([ i \in 1..Len(SubReads) |-> SubReads[i][2] ],
                                  LAMBDA url : \E i \in 1..Len(last.reqs) :
                                                  last.reqs[i].url = url)
                /\ \A i \in 1..Len(SubReads) :
                      \/ \E j \in 1..Len(last.reqs) : last.reqs[j].url = SubReads[i][2]
                      \/ /\ cacheEnabled /\ ~cacheDisabled
                         /\ CacheFresh(cache, SubReads[i][1], now)
                /\ last.result = <<AnnotatedLists>>
    /\ Idle
       => \A failAt \in 1..MaxSubRequests, st \in { x \in Statuses : ~ResponseOk(x) },
             store \in (IF cacheEnabled THEN {TRUE} ELSE BOOLEAN) :
             LET failed == Traverse(failAt, st, store)
                 whole == Traverse(0, st, store)
             IN IF failAt <= Len(whole.reqs)
                THEN /\ ~failed.ok
                     /\ Len(failed.reqs) = failAt
                     /\ \A i \in 1..(failAt - 1) : failed.reqs[i] = whole.reqs[i]
                     /\ failed.reqs[failAt].url = whole.reqs[failAt].url
                ELSE failed = whole

(* getAllLists succeeded with the spaces taken from the cache and other    *)
(* sub-reads fetched, and returned the list L1 twice: once as a folderless *)
(* list of the space Ops and once as a list of its folder Dev              *)
C19_ListReturnedTwice ==
    /\ last.op = "getAllLists"
    /\ last.ok
    /\ last.reqs # <<>>
    /\ last.reqs[1].url # baseUrl \o getSpacesEndpoint
    /\ \E i, j \in 1..Len(last.result[1]) :
          /\ i < j
          /\ last.result[1][i] = [id |-> "L1", name |-> "Inbox", spaceName |-> "Ops"]
          /\ last.result[1][j] = [id |-> "L1", name |-> "Inbox", spaceName |-> "Ops",
                                  folderName |-> "Dev"]
---------------------------------------------------------------------------
(* Moving a task *)

(* the list the last operation was asked to move the task to, <<>> if none *)
MoveAsked ==
    CASE last.op = "updateTask" /\ ~IsUndef(Field(last.args[2], "list_id"))
            -> <<Field(last.args[2], "list_id")>>
      [] last.op = "update-task" /\ Truthy(Field(last.args[2], "list"))
            -> <<Field(last.args[2], "list")>>
      [] OTHER -> <<>>

(* C20: an updateTask with list_id, and an update-task with --list, sends  *)
(* exactly one request, a PUT on the task whose body carries list_id with  *)
(* the list asked for, and returns what the response to it carries, or     *)
(* fails with the error of that request.                                   *)
C20_MovePassedThrough ==
    MoveAsked # <<>>
    => /\ Len(last.reqs) = 1
       /\ last.reqs[1].method = "PUT"
       /\ last.reqs[1].url = baseUrl \o "/task/" \o last.args[1]
       /\ Field(last.reqs[1].body[1], "list_id") = MoveAsked[1]
       /\ last.ok = ResponseOk(last.reqs[1].status)
       /\ last.ok => last.result = last.reqs[1].data
       /\ ~last.ok => last.result = <<>>

(* update-task --list L2 --status done was answered 2xx while the cache    *)
(* held an entry of the task                                               *)
C20_MoveCommandCompleted ==
    /\ last.op = "update-task"
    /\ last.ok
    /\ MoveAsked = <<Str("L2")>>
    /\ Field(last.args[2], "status") = Str("done")
    /\ last.dropped # {}
---------------------------------------------------------------------------
(* The search command *)

(* the query string of the request url, "" when the url has none *)
QueryString(url) ==
    IF \E i \in 1..Len(url) : CharAt(url, i) = "?"
    THEN SubSeq(url, (CHOOSE i \in 1..Len(url) : CharAt(url, i) = "?") + 1, Len(url))
    ELSE ""

SearchRequested == last.op = "search" /\ last.reqs # <<>>

(* C21: a request the search command sends asks for closed tasks           *)
(* (include_closed=true in its query string) exactly when --exclude-closed *)
(* was not given, and then it sends the request to the team's task search. *)
C21_SearchIncludesClosedByDefault ==
    SearchRequested
    => /\ Len(last.reqs) = 1
       /\ last.reqs[1].method = "GET"
       /\ StartsWith(last.reqs[1].url, baseUrl \o "/team/" \o teamId \o "/task")
       /\ Includes(QueryString(last.reqs[1].url), "include_closed=true")
            <=> ~Truthy(Field(last.args[1], "excludeClosed"))
       /\ Includes(QueryString(last.reqs[1].url), "include_closed")
            <=> ~Truthy(Field(last.args[1], "excludeClosed"))

(* search --exclude-closed --query x --list L1 sent its request *)
C21_SearchExcludedClosed ==
    /\ SearchRequested
    /\ last.ok
    /\ Field(last.args[1], "excludeClosed") = Bool(TRUE)
    /\ Field(last.args[1], "list") = Str("L1")
    /\ ~Includes(last.reqs[1].url, "include_closed")

(* C22: a request sent by searchTasks called with assigned_to_me = true,   *)
(* or by the search command given --assigned-to-me, carries the            *)
(* assigned-to-me filter in its query string.                              *)
C22_AssignedToMeIsSent ==
    /\ last.reqs # <<>>
    /\ \/ last.op = "searchTasks" /\ Field(last.args[2], "assigned_to_me") = Bool(TRUE)
       \/ last.op = "search" /\ Field(last.args[1], "assignedToMe") = Bool(TRUE)
    => Includes(QueryString(last.reqs[1].url), "assigned_to_me")
---------------------------------------------------------------------------
(* The body of an update *)

(* the field of the PUT body an argument of update-task stands for *)
BodyField(argument) ==
    CASE argument = "dueDate" -> "due_date"
      [] argument = "list" -> "list_id"
      [] OTHER -> argument

(* the fields the caller of the last update supplied, under the names of   *)
(* the body, with the caller's values                                      *)
SuppliedFields ==
    LET given == last.args[2]
    IN IF last.op = "updateTask"
       THEN { <<given[i][1], given[i][2]>> : i \in { j \in 1..Len(given) : ~IsUndef(given[j][2]) } }
       ELSE { <<BodyField(given[i][1]), given[i][2]>> :
                i \in { j \in 1..Len(given) : ~IsUndef(given[j][2]) } }

(* C23: the body of the PUT that updateTask or the update-task command     *)
(* sends holds exactly the fields the caller supplied, each with the       *)
(* caller's value.                                                         *)
C23_BodyMirrorsSuppliedFields ==
    last.op \in {"updateTask", "update-task"}
    => /\ Len(last.reqs) = 1
       /\ Len(last.reqs[1].body) = 1
       /\ { <<last.reqs[1].body[1][i][1], last.reqs[1].body[1][i][2]>> :
              i \in 1..Len(last.reqs[1].body[1]) } = SuppliedFields
---------------------------------------------------------------------------
(* A write that fails *)

(* C24: a step in which createTask, updateTask, deleteTask, addComment or  *)
(* createTimeEntry fails leaves the cache exactly as it was, returns       *)
(* nothing and reports the error of its request.                           *)
C24_FailedWriteLeavesCache ==
    [][ (last'.op \in WriteOps /\ last.op = "none" /\ ~last'.ok)
        => /\ cache' = cache
           /\ last'.dropped = {}
           /\ last'.result = <<>>
           /\ last'.error # "" ]_vars

(* an updateTask failed while the cache held the entry of its task and a   *)
(* task list, both of which a successful updateTask removes                *)
C24_WriteFailedOnFilledCache ==
    /\ last.op = "updateTask"
    /\ ~last.ok
    /\ getTaskKey(last.args[1], FALSE) \in DOMAIN cache
    /\ Held("tasks") # {}
---------------------------------------------------------------------------
(* A read that fails *)

(* C25: a step in which a read fails leaves the cache exactly as it was,   *)
(* and when a read has failed the same read with the same arguments can be *)
(* called again and every such call sends a request.                       *)
C25_FailedReadStoresNothing ==
    /\ [][ (last'.op \in ReadOps /\ last.op = "none" /\ ~last'.ok) => cache' = cache ]_vars
    /\ []( (last.op \in ReadOps /\ ~last.ok)
           => /\ last.result = <<>>
              /\ ENABLED ReadAgain
              /\ ~ENABLED (ReadAgain /\ last'.reqs = <<>>) )

(* a getTask failed on an enabled cache that holds an expired entry under  *)
(* the key of the call                                                     *)
C25_ReadFailedOverExpiredEntry ==
    /\ last.op = "getTask"
    /\ ~last.ok
    /\ cacheEnabled
    /\ last.key \in DOMAIN cache
---------------------------------------------------------------------------
(* Writes for one task and the entries of other tasks *)

(* C26: a successful updateTask(T) removes no single-task entry of another *)
(* task id, and a successful addComment(T) removes no comments entry of    *)
(* another task id, also when T is a prefix of the other id.               *)
C26_WriteForOneTaskIsExact ==
    /\ (last.op = "updateTask" /\ last.ok)
       => \A taskId \in TaskIds \ {last.args[1]}, includeMarkdown \in BOOLEAN :
             getTaskCalls[<<taskId, includeMarkdown>>].key \notin last.dropped
    /\ (last.op = "addComment" /\ last.ok)
       => \A taskId \in TaskIds \ {last.args[1]} :
             CommentsKeys(taskId) \cap last.dropped = {}
---------------------------------------------------------------------------
(* Writes and the entries of unrelated reads *)

(* the prefix of a cache key: the key up to its first ":" *)
Family(key) ==
    IF \E i \in 1..Len(key) : CharAt(key, i) = ":"
    THEN SubSeq(key, 1, (CHOOSE i \in 1..Len(key) :
                            /\ CharAt(key, i) = ":"
                            /\ \A j \in 1..(i-1) : CharAt(key, j) # ":") - 1)
    ELSE key

HierarchyFamilies ==
    { "spaces", "space", "folders", "lists", "folderless_lists", "list",
      "authorized_user", "team_members" }

(* the prefixes of the entries a write is to leave in the cache *)
Unrelated(op) ==
    HierarchyFamilies \cup
    CASE op \in {"createTask", "updateTask", "deleteTask"} -> {"comments", "time_entries"}
      [] op = "addComment" -> {"task", "tasks", "search", "time_entries"}
      [] op = "createTimeEntry" -> {"task", "tasks", "search", "comments"}

(* C27: no key that createTask, updateTask, deleteTask, addComment or      *)
(* createTimeEntry removes from the cache belongs to a read unrelated to   *)
(* the write: the space, folder, list and user reads for every write,      *)
(* comments and time entries for the task writes, tasks, searches and time *)
(* entries for addComment, tasks, searches and comments for                *)
(* createTimeEntry.                                                        *)
C27_WritesLeaveUnrelatedEntries ==
    last.op \in WriteOps
    => \A key \in last.dropped : Family(key) \notin Unrelated(last.op)

(* deleteTask succeeded, removed an entry and left the entry of an         *)
(* unrelated read in the cache                                             *)
C27_UnrelatedEntryKept ==
    /\ last.op = "deleteTask"
    /\ last.ok
    /\ last.dropped # {}
    /\ \E key \in DOMAIN cache : Family(key) \in {"comments", "time_entries"}
---------------------------------------------------------------------------
(* A read and a write in flight together *)

(* C28: when no call is in flight any more, a getTasks, searchTasks or     *)
(* getTask that is served from the cache is not served a value that the    *)
(* remote service had returned before the request of a write was issued    *)
(* which has succeeded since and invalidates the key of the read.          *)
C28_NoStaleEntryAfterWrite ==
    ( /\ last.op \in {"getTasks", "searchTasks", "getTask"}
      /\ last.hit
      /\ pending.read = <<>>
      /\ pending.write = <<>> )
    => last.key \notin pending.old
---------------------------------------------------------------------------
(* Construction from a configuration with both shapes *)

(* C29: whenever the direct shape or the legacy shape of the configuration *)
(* yields both the credential and the workspace id, the construction       *)
(* succeeds, with a credential and a workspace id, whatever the other      *)
(* shape holds.                                                            *)
C29_SucceedsWhenAShapeIsComplete ==
    ( /\ last.op = "constructor"
      /\ DirectComplete(last.args[1]) \/ LegacyComplete(last.args[1]) )
    => /\ last.ok
       /\ last.error = ""
       /\ Yields(last.result[1].apiKey)
       /\ Yields(last.result[1].teamId)
---------------------------------------------------------------------------
(* Filters with the values false and 0 *)

(* the scalar filters of a read that takes them as options *)
ScalarFilters(op) ==
    CASE op = "getTasks" ->
           { "include_closed", "reverse", "subtasks", "order_by", "due_date_gt",
             "due_date_lt", "date_created_gt", "date_created_lt", "date_updated_gt",
             "date_updated_lt" }
      [] op = "getTaskComments" -> { "start", "start_id" }
      [] op = "getTimeEntries" ->
           { "start_date", "end_date", "assignee", "include_task_tags",
             "include_location_names" }
      [] OTHER -> {}

(* the options the last read was called with *)
OptionsGiven == last.args[Len(last.args)]

(* C30: a request sent by getTasks, getTaskComments or getTimeEntries      *)
(* holds in its query string, for every scalar filter the options supply   *)
(* with a defined value and which is part of the cache key of the call,    *)
(* the pair of the filter's name and value, also when the value is false   *)
(* or 0.                                                                   *)
C30_SuppliedFilterIsTransmitted ==
    (last.op \in {"getTasks", "getTaskComments", "getTimeEntries"} /\ last.reqs # <<>>)
    => \A name \in ScalarFilters(last.op) :
          LET x == Field(OptionsGiven, name)
          IN ( /\ ~IsUndef(x)
               /\ Includes(":" \o last.key \o "&", name \o "=" \o JsString(x) \o "&") )
             => Includes("&" \o QueryString(last.reqs[1].url) \o "&",
                         "&" \o name \o "=" \o UrlEncode(JsString(x)) \o "&")
====
